---- MODULE Spec2Model ----
(***************************************************************************)
(* Canton Ecosystem Observatory: the resilient GitHub client               *)
(* (scripts/utils/github-client.ts) and the collection orchestrator        *)
(* (scripts/collect-github.ts).                                            *)
(***************************************************************************)
EXTENDS Integers, Sequences, FiniteSets, TLC

(***************************************************************************)
(* Program constants                                                       *)
(***************************************************************************)
MAX_RETRIES == 3
INITIAL_BACKOFF_MS == 1000
RATE_LIMIT_THRESHOLD == 100
PACE_CAP_SECONDS == 3600

(***************************************************************************)
(* Bounds of the model                                                     *)
(***************************************************************************)
\* wall clock (epoch seconds) when the client is constructed
StartEpoch == 10
\* number of earlier get calls whose responses set the snapshot the call
\* under study starts from
MaxEarlier == 1

\* an absent value (null / undefined / a header that is not present): the
\* empty sequence; a present value x is <<x>> where the two must be told apart
Null == <<>>
NoHeader == <<>>
Some(x) == <<x>>

VARIABLES
  now,            \* Math.floor(Date.now() / 1000)
  lastRateLimit,  \* GitHubClient.lastRateLimit
  pc,             \* position of the running get call
  attempt,        \* loop variable of get
  lastError,      \* local variable of get
  response,       \* the Response the last fetch resolved with (Null: none)
  outcome,        \* how the call settled: resolved value or thrown error
  log,            \* sleeps, pacing checks and requests of the running call
  earlier         \* number of earlier calls this client has completed

clientVars == <<now, lastRateLimit, pc, attempt, lastError, response,
                outcome, log, earlier>>

VARIABLES
  repoUrl,        \* argument of collectFromGitHub
  opc,            \* position of collectFromGitHub
  oresult,        \* "pending", "resolved" or "rejected": its promise
  parsed,         \* { owner, repo }
  repoMeta,       \* repoMeta
  tree,           \* tree
  treeTruncated,  \* treeTruncated
  fields,         \* fields
  notes,          \* notes, the array handed to every collector
  launched,       \* how many elements of the allSettled array are evaluated
  cpc,            \* per collector: the client call it awaits
  cstatus,        \* per collector: the state of its promise
  cvalue,         \* per collector: the object it returned
  scanIndex,      \* collectSdkVersion: position in damlYamls
  versions,       \* collectSdkVersion: versions
  access,         \* who has read or written which object so far
  requests,       \* per endpoint: the client calls issued so far
  rejection,      \* what collectFromGitHub threw (Null: nothing)
  failed,         \* the collectors a client call has thrown into
  prereq          \* how the metadata and the tree call settled (Null: not yet)

collectVars == <<repoUrl, opc, oresult, parsed, repoMeta, tree, treeTruncated,
                 fields, notes, launched, cpc, cstatus, cvalue, scanIndex,
                 versions, access, requests, rejection, failed, prereq>>

VARIABLES
  op,             \* the function of the confidence model or validator applied
  args,           \* its arguments
  ret,            \* what it returned
  prev,           \* what the run before returned, when it was run again
  runs            \* how often it was run on these arguments

dataVars == <<op, args, ret, prev, runs>>

VARIABLES
  calls           \* the get calls that run side by side on one client

vars == <<clientVars, collectVars, dataVars, calls>>
\* what a collectFromGitHub run leaves alone of a get call's own state
getVars == <<now, pc, attempt, lastError, response, outcome, log, earlier,
            dataVars, calls>>

(***************************************************************************)
(* Header values are decimal strings; the server formats, the client       *)
(* parses with parseInt(s, 10).                                            *)
(***************************************************************************)
RECURSIVE FormatDecimal(_)
FormatDecimal(n) ==
  IF n < 10 THEN <<n>> ELSE Append(FormatDecimal(n \div 10), n % 10)

RECURSIVE parseIntRadix(_, _)
parseIntRadix(s, radix) ==
  IF Len(s) = 0 THEN 0
  ELSE parseIntRadix(SubSeq(s, 1, Len(s) - 1), radix) * radix + s[Len(s)]

parseInt(s) == parseIntRadix(s, 10)

(***************************************************************************)
(* What the upstream API may answer                                        *)
(***************************************************************************)
Statuses == {200, 403, 404, 409, 422, 500, 503}
RemainingHeaders == {NoHeader, <<0>>, <<9, 9>>, <<1, 0, 0>>}
\* offsets of the advertised reset epoch from the server's clock
ResetOffsets == {-1, 1, 3598, 3599, 3600}
ResetHeaders(t) == {NoHeader} \cup {FormatDecimal(t + d) : d \in ResetOffsets}
\* response bodies: two JSON payloads and one body that is not JSON
Payloads == {"d1", "d2"}
Bodies == Payloads \cup {"not-json"}
Responses(t) ==
  [status : Statuses \ {200}, remaining : RemainingHeaders,
   reset : ResetHeaders(t), body : {""}]
  \cup [status : {200}, remaining : RemainingHeaders,
         reset : ResetHeaders(t), body : Bodies]

StatusText(s) ==
  CASE s = 422 -> "422" [] s = 500 -> "500" [] s = 503 -> "503"
    [] OTHER -> "other"

GitHubError(s, m, r) == [status |-> s, message |-> m, retryable |-> r]

(***************************************************************************)
(* GitHubClient                                                            *)
(***************************************************************************)
Max(a, b) == IF a >= b THEN a ELSE b

\* updateRateLimit that trusts the headers of successful responses only
updateRateLimit_okOnly(rl, resp) ==
  IF resp.status >= 200 /\ resp.status <= 299
    THEN [remaining |-> IF resp.remaining # NoHeader
                          THEN parseInt(resp.remaining) ELSE rl.remaining,
          reset     |-> IF resp.reset # NoHeader
                          THEN parseInt(resp.reset) ELSE rl.reset]
    ELSE rl

\* updateRateLimit: each counter is overwritten only when its header is there
updateRateLimit(rl, resp) ==
  [remaining |-> IF resp.remaining # NoHeader
                   THEN parseInt(resp.remaining) ELSE rl.remaining,
   reset     |-> IF resp.reset # NoHeader
                   THEN parseInt(resp.reset) ELSE rl.reset]

\* waitSeconds without the extra second
waitSeconds_noSlack(rl, t) == Max(0, rl.reset - t)

\* checkRateLimit: the number of milliseconds it sleeps (0: it does not sleep)
waitSeconds(rl, t) == Max(0, rl.reset - t + 1)
checkRateLimit(rl, t) ==
  IF rl.remaining < RATE_LIMIT_THRESHOLD
    THEN IF waitSeconds(rl, t) > 0 /\ waitSeconds(rl, t) < PACE_CAP_SECONDS
           THEN waitSeconds(rl, t) * 1000
           ELSE 0
    ELSE 0

\* a backoff that grows linearly
delay_linear(a) == INITIAL_BACKOFF_MS * a

\* the delay of the backoff sleep that opens a retry
delay(a) == INITIAL_BACKOFF_MS * 2 ^ (a - 1)

isOk(s) == s >= 200 /\ s <= 299

\* the status checks with `remaining < 0` for the rate-limit test
statusError_strict(resp, rl) ==
  IF resp.status = 404 THEN Some(GitHubError(404, "Not found", FALSE))
  ELSE IF resp.status = 403 THEN
    IF rl.remaining < 0
      THEN Some(GitHubError(403, "Rate limit exceeded", TRUE))
      ELSE Some(GitHubError(403, "Forbidden", FALSE))
  ELSE IF resp.status = 409
    THEN Some(GitHubError(409, "Conflict (likely empty repository)", FALSE))
  ELSE IF resp.status >= 500
    THEN Some(GitHubError(resp.status,
                          "Server error: " \o StatusText(resp.status), TRUE))
  ELSE IF ~isOk(resp.status)
    THEN Some(GitHubError(resp.status,
                          "HTTP " \o StatusText(resp.status), FALSE))
  ELSE Null

\* the error the status checks of get throw for a response; Null when the
\* response passes them all.  rl is the snapshot after updateRateLimit.
statusError(resp, rl) ==
  IF resp.status = 404 THEN Some(GitHubError(404, "Not found", FALSE))
  ELSE IF resp.status = 403 THEN
    IF rl.remaining <= 0
      THEN Some(GitHubError(403, "Rate limit exceeded", TRUE))
      ELSE Some(GitHubError(403, "Forbidden", FALSE))
  ELSE IF resp.status = 409
    THEN Some(GitHubError(409, "Conflict (likely empty repository)", FALSE))
  ELSE IF resp.status >= 500
    THEN Some(GitHubError(resp.status,
                          "Server error: " \o StatusText(resp.status), TRUE))
  ELSE IF ~isOk(resp.status)
    THEN Some(GitHubError(resp.status,
                          "HTTP " \o StatusText(resp.status), FALSE))
  ELSE Null

\* response.json() throws on a body that is not JSON; the catch block of get
\* turns every thrown value that is not a GitHubError into this error
networkError(m) == GitHubError(0, m, TRUE)

Event(e, ms) == [ev |-> e, ms |-> ms]

Pending == [kind |-> "pending", data |-> "", status |-> 0,
            rateLimit |-> [remaining |-> 0, reset |-> 0],
            error |-> GitHubError(0, "", FALSE)]
Resolved(d, s, rl) == [Pending EXCEPT !.kind = "resolved", !.data = d,
                                      !.status = s, !.rateLimit = rl]
Rejected(e) == [Pending EXCEPT !.kind = "rejected", !.error = e]

ClientInit ==
  /\ now = StartEpoch
  /\ lastRateLimit = [remaining |-> 5000, reset |-> 0]
  /\ pc = "idle"
  /\ attempt = 0
  /\ lastError = Null
  /\ response = Null
  /\ outcome = Pending
  /\ log = <<>>
  /\ earlier = 0

\* An earlier get call on this client, one that resolved on its first
\* attempt: all it leaves behind is the snapshot updateRateLimit took from
\* its response.
EarlierCall ==
  /\ pc = "idle"
  /\ earlier < MaxEarlier
  /\ earlier' = earlier + 1
  /\ \E resp \in Responses(now) :
       /\ resp.status = 200
       /\ resp.body = "d1"
       /\ lastRateLimit' = updateRateLimit(lastRateLimit, resp)
  /\ UNCHANGED <<now, pc, attempt, lastError, response, outcome, log>>
  /\ UNCHANGED <<collectVars, dataVars, calls>>

\* a caller invokes get(path)
StartGet ==
  /\ pc = "idle"
  /\ attempt' = 0
  /\ lastError' = Null
  /\ response' = Null
  /\ outcome' = Pending
  /\ log' = <<>>
  /\ pc' = "loop"
  /\ UNCHANGED <<now, lastRateLimit, earlier, collectVars,
                 dataVars, calls>>

\* top of the loop body: the backoff sleep of a retry
LoopTop ==
  /\ pc = "loop"
  /\ attempt <= MAX_RETRIES
  /\ IF attempt > 0
       THEN /\ now' = now + delay(attempt) \div 1000
            /\ log' = Append(log, Event("backoff", delay(attempt)))
       ELSE UNCHANGED <<now, log>>
  /\ pc' = "check"
  /\ UNCHANGED <<lastRateLimit, attempt, lastError, response, outcome, earlier>>
  /\ UNCHANGED <<collectVars, dataVars, calls>>

\* await this.checkRateLimit()
CheckRateLimit ==
  /\ pc = "check"
  /\ now' = now + checkRateLimit(lastRateLimit, now) \div 1000
  /\ log' = Append(log, Event("check", checkRateLimit(lastRateLimit, now)))
  /\ pc' = "fetch"
  /\ UNCHANGED <<lastRateLimit, attempt, lastError, response, outcome, earlier>>
  /\ UNCHANGED <<collectVars, dataVars, calls>>

\* fetch(...) is called: the request goes out
SendRequest ==
  /\ pc = "fetch"
  /\ log' = Append(log, Event("request", 0))
  /\ response' = Null
  /\ pc' = "await"
  /\ UNCHANGED <<now, lastRateLimit, attempt, lastError, outcome, earlier>>
  /\ UNCHANGED <<collectVars, dataVars, calls>>

\* the loop written with `attempt < MAX_RETRIES`
NextIteration_short(err) ==
  /\ lastError' = err
  /\ attempt' = attempt + 1
  /\ IF attempt + 1 < MAX_RETRIES
       THEN pc' = "loop" /\ outcome' = outcome
       ELSE /\ pc' = "done"
            /\ outcome' = Rejected(
                 IF err = Null
                   THEN GitHubError(0, "Unknown error after retries", FALSE)
                   ELSE err[1])

\* `continue`, or falling out of the catch block: attempt++ and the loop
\* test; when the loop ends, `throw lastError ?? {unknown}`
NextIteration(err) ==
  /\ lastError' = err
  /\ attempt' = attempt + 1
  /\ IF attempt + 1 <= MAX_RETRIES
       THEN pc' = "loop" /\ outcome' = outcome
       ELSE /\ pc' = "done"
            /\ outcome' = Rejected(
                 IF err = Null
                   THEN GitHubError(0, "Unknown error after retries", FALSE)
                   ELSE err[1])

Throw(e) ==
  /\ pc' = "done"
  /\ outcome' = Rejected(e)
  /\ UNCHANGED <<attempt>>

\* a catch block that retries every GitHubError
Catch_retryAll(e, isGitHubError) ==
  IF isGitHubError THEN NextIteration(Some(e))
  ELSE IF attempt = MAX_RETRIES
    THEN Throw(e) /\ lastError' = Some(e)
    ELSE NextIteration(Some(e))

\* the catch block of get, for a thrown GitHubError e or a thrown other value
Catch(e, isGitHubError) ==
  IF isGitHubError /\ ~e.retryable THEN Throw(e) /\ UNCHANGED lastError
  ELSE IF isGitHubError THEN NextIteration(Some(e))
  ELSE IF attempt = MAX_RETRIES
    THEN Throw(e) /\ lastError' = Some(e)
    ELSE NextIteration(Some(e))

\* fetch resolves with a response: updateRateLimit, the status checks,
\* response.json(), and the catch block
Respond ==
  /\ pc = "await"
  /\ \E resp \in Responses(now) :
       LET rl == updateRateLimit(lastRateLimit, resp)
           err == statusError(resp, rl)
       IN /\ response' = Some(resp)
          /\ lastRateLimit' = rl
          /\ IF err # Null /\ resp.status >= 500
               THEN NextIteration(err)
             ELSE IF err # Null THEN Catch(err[1], TRUE)
             ELSE IF resp.body \notin Payloads
               THEN Catch(networkError("Unexpected token"), FALSE)
             ELSE /\ pc' = "done"
                  /\ outcome' = Resolved(resp.body, resp.status, rl)
                  /\ UNCHANGED <<attempt, lastError>>
  /\ UNCHANGED <<now, log, earlier, collectVars,
                 dataVars, calls>>

\* fetch rejects: no response
NetworkFailure ==
  /\ pc = "await"
  /\ Catch(networkError("fetch failed"), FALSE)
  /\ UNCHANGED <<now, lastRateLimit, response, log, earlier, collectVars,
                 dataVars, calls>>

Next ==
  \/ EarlierCall
  \/ StartGet
  \/ LoopTop
  \/ CheckRateLimit
  \/ SendRequest
  \/ Respond
  \/ NetworkFailure

(***************************************************************************)
(* GitHubClient: get calls that run side by side on one client             *)
(***************************************************************************)
\* Each call has its own loop variable and position; lastRateLimit and the
\* clock are the client's.  A call that sleeps is at "backoff" or "paced"
\* until the clock has reached `wake`; `sent` is the snapshot and the clock
\* at the moment its last request went out.
Callers == {"A", "B"}
\* the clock does not run past this
MaxClock == 3700
\* the upstream API fails at most this many requests
MaxFailures == 1

NewCall == [pc |-> "idle", attempt |-> 0, lastError |-> Null, wake |-> 0,
            sent |-> Null, settled |-> "pending"]
NoCalls == calls = [c \in Callers |-> NewCall]

\* what the upstream API answers to the calls
ConcurrentResponses(t) ==
  {r \in Responses(t) :
     /\ r.status \in {200, 404, 500}
     /\ r.remaining \in {<<9, 9>>, <<1, 0, 0>>}
     /\ r.reset \in {NoHeader, FormatDecimal(t + 3598)}
     /\ r.body \in {"", "d1"}}

\* `continue` or the end of the catch block for a retryable error
retried(call, e) ==
  IF call.attempt + 1 <= MAX_RETRIES
    THEN [call EXCEPT !.attempt = @ + 1, !.pc = "loop",
                      !.lastError = Some(e.status)]
    ELSE [call EXCEPT !.attempt = @ + 1, !.pc = "done",
                      !.lastError = Some(e.status), !.settled = "rejected"]
thrown(call) == [call EXCEPT !.pc = "done", !.settled = "rejected"]

\* the call after fetch resolved with resp; rl is the updated snapshot
answered(call, resp, rl) ==
  LET err == statusError(resp, rl)
  IN IF err # Null /\ err[1].retryable THEN retried(call, err[1])
     ELSE IF err # Null THEN thrown(call)
     ELSE [call EXCEPT !.pc = "done", !.settled = "resolved"]

\* the requests that failed so far
Failures ==
  Cardinality({ci \in Callers \X (1..(MAX_RETRIES + 1)) :
                 ci[2] <= calls[ci[1]].attempt})

raceFrame == <<pc, attempt, lastError, response, outcome, log, earlier,
               collectVars, dataVars>>

\* a caller invokes get(path)
Invoke(c) ==
  /\ calls[c].pc = "idle"
  /\ calls' = [calls EXCEPT ![c].pc = "loop"]
  /\ UNCHANGED <<now, lastRateLimit, raceFrame>>

\* top of the loop body: a retry starts its backoff sleep
EnterLoop(c) ==
  /\ calls[c].pc = "loop"
  /\ calls' = [calls EXCEPT ![c] =
       IF calls[c].attempt > 0
         THEN [@ EXCEPT !.pc = "backoff",
                        !.wake = now + delay(calls[c].attempt) \div 1000]
         ELSE [@ EXCEPT !.pc = "check"]]
  /\ UNCHANGED <<now, lastRateLimit, raceFrame>>

\* checkRateLimit reads the snapshot and the clock and starts its sleep
Pace(c) ==
  /\ calls[c].pc = "check"
  /\ calls' = [calls EXCEPT ![c] =
       IF checkRateLimit(lastRateLimit, now) > 0
         THEN [@ EXCEPT !.pc = "paced",
                 !.wake = now + checkRateLimit(lastRateLimit, now) \div 1000]
         ELSE [@ EXCEPT !.pc = "fetch"]]
  /\ UNCHANGED <<now, lastRateLimit, raceFrame>>

\* the timer of a sleep fires: after the backoff the pacing check follows,
\* after the pacing sleep the request
Wake(c) ==
  /\ calls[c].pc \in {"backoff", "paced"}
  /\ now >= calls[c].wake
  /\ calls' = [calls EXCEPT ![c].pc =
                 IF calls[c].pc = "backoff" THEN "check" ELSE "fetch"]
  /\ UNCHANGED <<now, lastRateLimit, raceFrame>>

\* fetch(...) is called: the request goes out
Send(c) ==
  /\ calls[c].pc = "fetch"
  /\ calls' = [calls EXCEPT ![c].pc = "await",
                            ![c].sent = Some([rl |-> lastRateLimit,
                                              at |-> now])]
  /\ UNCHANGED <<now, lastRateLimit, raceFrame>>

\* fetch resolves: updateRateLimit, then the status checks
Answer(c) ==
  /\ calls[c].pc = "await"
  /\ \E resp \in ConcurrentResponses(now) :
       /\ resp.status = 500 => Failures < MaxFailures
       /\ lastRateLimit' = updateRateLimit(lastRateLimit, resp)
       /\ calls' = [calls EXCEPT ![c] =
            answered(@, resp, updateRateLimit(lastRateLimit, resp))]
  /\ UNCHANGED <<now, raceFrame>>

\* fetch rejects: no response
Fail(c) ==
  /\ calls[c].pc = "await"
  /\ Failures < MaxFailures
  /\ calls' = [calls EXCEPT ![c] = retried(@, networkError("fetch failed"))]
  /\ UNCHANGED <<now, lastRateLimit, raceFrame>>

\* every call waits for a timer or for the network: the clock moves on to
\* the next timer
Sleepers == {c \in Callers : calls[c].pc \in {"backoff", "paced"}}
TimePasses ==
  /\ Sleepers # {}
  /\ \A c \in Callers :
       calls[c].pc \in {"backoff", "paced", "await", "idle", "done"}
  /\ \A c \in Sleepers : calls[c].wake > now
  /\ \E c \in Sleepers :
       /\ \A d \in Sleepers : calls[c].wake <= calls[d].wake
       /\ calls[c].wake <= MaxClock
       /\ now' = calls[c].wake
  /\ UNCHANGED <<lastRateLimit, calls, raceFrame>>

ConcurrentNext ==
  \/ \E c \in Callers : Invoke(c)
  \/ \E c \in Callers : EnterLoop(c)
  \/ \E c \in Callers : Pace(c)
  \/ \E c \in Callers : Wake(c)
  \/ \E c \in Callers : Send(c)
  \/ \E c \in Callers : Answer(c)
  \/ \E c \in Callers : Fail(c)
  \/ TimePasses

\* the client calls of a collectFromGitHub run, by what they ask for
Endpoints == {"meta", "tree", "commits", "root", "scan", "license", "runs",
              "readme", "languages"}

\* no function of the confidence model or the validator was applied
DataIdle ==
  /\ op = "none"
  /\ args = <<>>
  /\ ret = <<>>
  /\ prev = <<>>
  /\ runs = 0

\* collectFromGitHub is not running
CollectIdle ==
  /\ repoUrl = ""
  /\ opc = "idle"
  /\ oresult = "pending"
  /\ parsed = [owner |-> "", repo |-> ""]
  /\ repoMeta = Null
  /\ tree = <<>>
  /\ treeTruncated = FALSE
  /\ fields = <<>>
  /\ notes = <<>>
  /\ launched = 0
  /\ cpc = [c \in 1..7 |-> "unlaunched"]
  /\ cstatus = [c \in 1..7 |-> "none"]
  /\ cvalue = [c \in 1..7 |-> <<>>]
  /\ scanIndex = 0
  /\ versions = <<>>
  /\ access = {}
  /\ requests = [e \in Endpoints |-> 0]
  /\ rejection = Null
  /\ failed = {}
  /\ prereq = [meta |-> Null, tree |-> Null]

Init == ClientInit /\ CollectIdle /\ DataIdle /\ NoCalls

\* one client, its get calls
Spec == Init /\ [][Next]_vars

(***************************************************************************)
(* collect-github: shapes of the data the collectors work on               *)
(***************************************************************************)
STALE_CI_DAYS == 90
README_MIN_BYTES == 500

\* a path is the sequence of its "/"-separated segments; the empty sequence
\* stands for an entry that carries no path (undefined)
UndefinedPath == <<>>
Blob(p) == [type |-> "blob", path |-> p]
Dir(p) == [type |-> "tree", path |-> p]
basename(p) == p[Len(p)]

\* the file names of the model's trees: getExtension of each, and whether
\* the name matches one of the name-based TEST_FILE_PATTERNS
FileNames ==
  [name : {"MainTest.daml"}, ext : {".daml"}, testName : {TRUE}] \cup
  [name : {"Main.daml"}, ext : {".daml"}, testName : {FALSE}] \cup
  [name : {"app.test.ts"}, ext : {".ts"}, testName : {TRUE}] \cup
  [name : {"Test.md"}, ext : {".md"}, testName : {FALSE}] \cup
  [name : {"ci.yml"}, ext : {".yml"}, testName : {FALSE}] \cup
  [name : {".travis.yml"}, ext : {".yml"}, testName : {FALSE}] \cup
  [name : {"README.md"}, ext : {".md"}, testName : {FALSE}] \cup
  [name : {"guide.md"}, ext : {".md"}, testName : {FALSE}] \cup
  [name : {".gitkeep"}, ext : {".gitkeep"}, testName : {FALSE}] \cup
  [name : {"openapi.yaml"}, ext : {".yaml"}, testName : {FALSE}] \cup
  [name : {"daml.yaml"}, ext : {".yaml"}, testName : {FALSE}] \cup
  [name : {"package.json"}, ext : {".json"}, testName : {FALSE}] \cup
  [name : {"Jenkinsfile"}, ext : {""}, testName : {FALSE}]
FileInfo(n) == CHOOSE f \in FileNames : f.name = n

CODE_EXTENSIONS == {".ts", ".js", ".py", ".java", ".scala", ".daml", ".hs",
                    ".rs", ".go", ".rb", ".kt"}

getExtension(p) == FileInfo(basename(p)).ext

\* TEST_FILE_PATTERNS: a name-based pattern, a __tests__/ directory on the
\* path, or a path under src/test/
matchesTestPattern(p) ==
  \/ FileInfo(basename(p)).testName
  \/ \E i \in 1..(Len(p) - 1) : p[i] = "__tests__"
  \/ Len(p) >= 3 /\ p[1] = "src" /\ p[2] = "test"

\* CI_CONFIG_PATTERNS
startsWithWorkflows(p) ==
  Len(p) >= 3 /\ p[1] = ".github" /\ p[2] = "workflows"
matchesCiPattern(p) ==
  \/ startsWithWorkflows(p) /\ getExtension(p) \in {".yml", ".yaml"}
  \/ p = <<".circleci", "config.yml">>
  \/ p = <<"Jenkinsfile">>
  \/ p = <<".gitlab-ci.yml">>
  \/ p = <<".travis.yml">>

\* FRAMEWORK_FILES
FRAMEWORK_FILES ==
  [n \in {"package.json", "daml.yaml", "build.sbt", "pom.xml", "Cargo.toml",
          "go.mod", "requirements.txt", "pyproject.toml"} |->
     CASE n = "package.json" -> "Node.js"
       [] n = "daml.yaml" -> "Daml"
       [] n = "build.sbt" -> "Scala"
       [] n = "pom.xml" -> "Java/Maven"
       [] n = "Cargo.toml" -> "Rust"
       [] n = "go.mod" -> "Go"
       [] OTHER -> "Python"]

\* the tags of the model in the order Array.prototype.sort() gives them
TagOrder == <<"Daml", "Go", "Haskell", "Java/Maven", "Node.js", "Python",
              "Rust", "Scala", "TypeScript">>

\* the trees the upstream API answers with
TreeEmpty == <<>>
TreeApp ==
  << Dir(<<"src">>),
     Blob(<<"src", "MainTest.daml">>),
     Blob(<<"src", "Test.md">>),
     Blob(<<".github", "workflows", "ci.yml">>),
     Blob(<<"README.md">>),
     Blob(<<"sub", "daml.yaml">>),
     Blob(<<"package.json">>) >>
TreeDocs ==
  << Blob(<<"docs", "guide.md">>),
     Blob(<<"docs", ".gitkeep">>),
     Blob(<<".travis.yml">>),
     Blob(<<"src", "Main.daml">>) >>
\* a tree with an entry that lacks its path
TreeBroken == << Blob(<<"README.md">>), Blob(UndefinedPath) >>
Trees == {TreeEmpty, TreeApp, TreeDocs, TreeBroken}

\* what a collector does when control leaves it: it returns a value, throws,
\* or awaits a client call at label `at`; `push` are the notes it pushed
Return(v, push) == [kind |-> "return", value |-> v, push |-> push, at |-> ""]
ThrowStep(push) == [kind |-> "throw", value |-> <<>>, push |-> push, at |-> ""]
Await(label, push) ==
  [kind |-> "await", value |-> <<>>, push |-> push, at |-> label]

\* what a settled client call hands to its caller
Ok(d) == [ok |-> TRUE, data |-> d, error |-> GitHubError(0, "", FALSE)]
Err(e) == [ok |-> FALSE, data |-> <<>>, error |-> e]
NotFound == GitHubError(404, "Not found", FALSE)
Conflict == GitHubError(409, "Conflict (likely empty repository)", FALSE)
ServerError == GitHubError(500, "Server error: 500", TRUE)
\* what a property access on undefined throws: not a GitHubError
TypeError == [name |-> "TypeError"]

(***************************************************************************)
(* collect-github: the seven collectors, cut at their awaits               *)
(***************************************************************************)
\* an entry whose path a string method is called on although it has none:
\* the TypeError that filter / for-of then throws
BlobWithoutPath(entries) ==
  \E i \in DOMAIN entries :
    entries[i].type = "blob" /\ entries[i].path = UndefinedPath

\* ---- collectLastActivity ------------------------------------------------
\* a commit date is the sequence of its characters
substring(str, from, to) ==
  SubSeq(str, from + 1, IF to <= Len(str) THEN to ELSE Len(str))

collectLastActivity_start == Await("commits", <<>>)

\* data: [wellFormed, dates]; a commit without commit.author makes the
\* property access throw a TypeError, which the catch block rethrows
collectLastActivity_resume(r) ==
  IF r.ok THEN
    IF Len(r.data.dates) = 0
      THEN Return([last_verified_activity |-> Null], <<"No commits found">>)
    ELSE IF ~r.data.wellFormed THEN ThrowStep(<<>>)
    ELSE IF r.data.dates[1] = <<>>
      THEN Return([last_verified_activity |-> Null], <<>>)
    ELSE Return([last_verified_activity |->
                   Some(substring(r.data.dates[1], 0, 10))], <<>>)
  ELSE IF r.error.status = 409
    THEN Return([last_verified_activity |-> Null], <<"Empty repository">>)
  ELSE Return([last_verified_activity |-> Null],
              <<"Could not fetch commits: " \o r.error.message>>)

\* ---- GitHubClient.getFileContent ----------------------------------------
\* base64 transport: the payload wraps the text, decoding unwraps it
Base64(text) == [plain |-> text]
base64Decode(c) == c.plain

\* what getFileContent makes of the settled get: the text, null, or a throw
getFileContent(r) ==
  IF r.ok THEN
    [thrown |-> FALSE,
     content |-> IF r.data.encoding = "base64"
                   THEN Some(base64Decode(r.data.content))
                   ELSE Some(r.data.content)]
  ELSE IF r.error.status = 404 THEN [thrown |-> FALSE, content |-> Null]
  ELSE [thrown |-> TRUE, content |-> Null]

\* ---- collectSdkVersion --------------------------------------------------
\* a yaml text is the sequence of its lines, a line a [key, value] pair;
\* parseSdkVersion gives the value of the first sdk-version line
parseSdkVersion(yamlContent) ==
  LET hits == SelectSeq(yamlContent,
                        LAMBDA l : l.key = "sdk-version" /\ l.value # "")
  IN IF Len(hits) = 0 THEN Null ELSE Some(hits[1].value)

\* a.split(".").map(Number), for the version strings of the model
VersionParts(v) ==
  CASE v = "2.7.0" -> <<2, 7, 0>>
    [] v = "2.9.0" -> <<2, 9, 0>>
    [] v = "2.8.1" -> <<2, 8, 1>>
    [] v = "2.10" -> <<2, 10>>
    [] v = "2.10.0" -> <<2, 10, 0>>
    [] OTHER -> <<0>>

Part(parts, i) == IF i <= Len(parts) THEN parts[i] ELSE 0

compareSemver(a, b) ==
  LET pa == VersionParts(a)
      pb == VersionParts(b)
  IN IF Part(pa, 1) # Part(pb, 1) THEN Part(pa, 1) - Part(pb, 1)
     ELSE IF Part(pa, 2) # Part(pb, 2) THEN Part(pa, 2) - Part(pb, 2)
     ELSE IF Part(pa, 3) # Part(pb, 3) THEN Part(pa, 3) - Part(pb, 3)
     ELSE 0

\* versions.sort(compareSemver): a stable insertion sort
RECURSIVE InsertSorted(_, _)
InsertSorted(sorted, v) ==
  IF sorted = <<>> THEN <<v>>
  ELSE IF compareSemver(sorted[Len(sorted)], v) <= 0 THEN Append(sorted, v)
  ELSE Append(InsertSorted(SubSeq(sorted, 1, Len(sorted) - 1), v),
              sorted[Len(sorted)])

\* a collector that leaves the versions in the order they were found
SortVersions_unsorted(vs) == vs

RECURSIVE SortVersions(_)
SortVersions(vs) ==
  IF vs = <<>> THEN <<>>
  ELSE InsertSorted(SortVersions(SubSeq(vs, 1, Len(vs) - 1)), vs[Len(vs)])

\* [...new Set(versions)]: first occurrences, in order
RECURSIVE Unique(_)
Unique(vs) ==
  IF vs = <<>> THEN <<>>
  ELSE LET init == Unique(SubSeq(vs, 1, Len(vs) - 1))
       IN IF \E i \in DOMAIN init : init[i] = vs[Len(vs)]
            THEN init ELSE Append(init, vs[Len(vs)])

RECURSIVE Join(_)
Join(strs) ==
  IF Len(strs) = 1 THEN strs[1]
  ELSE Join(SubSeq(strs, 1, Len(strs) - 1)) \o ", " \o strs[Len(strs)]

\* the paths of the daml.yaml files below the root
damlYamls(entries) ==
  LET hits == SelectSeq(entries, LAMBDA e :
                 e.type = "blob" /\ Len(e.path) >= 2
                 /\ basename(e.path) = "daml.yaml")
  IN [i \in DOMAIN hits |-> hits[i].path]

collectSdkVersion_start == Await("root", <<>>)

\* after the root daml.yaml was asked for
collectSdkVersion_root(r, entries) ==
  LET c == getFileContent(r) IN
  IF c.thrown THEN ThrowStep(<<>>)
  ELSE IF c.content # Null /\ c.content[1] # <<>> THEN
    LET version == parseSdkVersion(c.content[1]) IN
    IF version # Null
      THEN Return([canton_sdk_version |-> version], <<>>)
      ELSE Return([canton_sdk_version |-> Null],
                  <<"Could not parse daml.yaml">>)
  ELSE IF BlobWithoutPath(entries) THEN ThrowStep(<<>>)
  ELSE IF Len(damlYamls(entries)) = 0
    THEN Return([canton_sdk_version |-> Null], <<>>)
  ELSE Await("scan", <<>>)

\* the versions list after the content of one more file arrived
scanned(found, c) ==
  IF c.content # Null /\ c.content[1] # <<>>
       /\ parseSdkVersion(c.content[1]) # Null
    THEN Append(found, parseSdkVersion(c.content[1])[1])
    ELSE found

\* after the loop over damlYamls
collectSdkVersion_finish(found) ==
  IF Len(found) = 0
    THEN Return([canton_sdk_version |-> Null],
                <<"Could not parse any daml.yaml files">>)
  ELSE Return(
         [canton_sdk_version |->
            Some(SortVersions(found)[Len(found)])],
         IF Len(found) > 1 /\ Len(Unique(found)) > 1
           THEN <<"Multiple SDK versions detected: "
                    \o Join(Unique(found))>>
           ELSE <<>>)

\* after file number i of damlYamls was asked for
collectSdkVersion_scan(r, entries, i, found) ==
  LET c == getFileContent(r) IN
  IF c.thrown THEN ThrowStep(<<>>)
  ELSE IF i < Len(damlYamls(entries)) THEN Await("scan", <<>>)
  ELSE collectSdkVersion_finish(scanned(found, c))

\* ---- collectLicense -----------------------------------------------------
collectLicense_start == Await("license", <<>>)

\* data.license is Some([spdx_id]) or null; reading spdx_id of null throws
collectLicense_resume(r) ==
  IF r.ok THEN
    IF r.data.license = Null THEN ThrowStep(<<>>)
    ELSE IF r.data.license[1].spdx_id = "NOASSERTION"
      THEN Return([license_type |-> Some("Custom")], <<>>)
    ELSE Return([license_type |-> Some(r.data.license[1].spdx_id)], <<>>)
  ELSE IF r.error.status = 404
    THEN Return([license_type |-> Null], <<"No license detected">>)
  ELSE Return([license_type |-> Null],
              <<"Could not fetch license: " \o r.error.message>>)

\* ---- collectTests (synchronous) -----------------------------------------
testFiles(entries) ==
  SelectSeq(entries, LAMBDA e :
    e.type = "blob" /\ getExtension(e.path) \in CODE_EXTENSIONS
    /\ matchesTestPattern(e.path))

collectTests(entries, truncated) ==
  IF Len(entries) = 0
    THEN Return([has_tests |-> Null, test_count |-> Null], <<>>)
  ELSE IF BlobWithoutPath(entries) THEN ThrowStep(<<>>)
  ELSE IF Len(testFiles(entries)) = 0
    THEN Return([has_tests |-> Some(FALSE), test_count |-> Null], <<>>)
  ELSE IF truncated
    THEN Return([has_tests |-> Some(TRUE), test_count |-> Null],
                <<"Test count may be incomplete due to large repo">>)
  ELSE Return([has_tests |-> Some(TRUE),
               test_count |-> Some(Len(testFiles(entries)))],
              <<"Found " \o ToString(Len(testFiles(entries)))
                  \o " test files (approximate count)">>)

\* ---- collectCi -----------------------------------------------------------
\* a path-less entry is matched as the text "undefined": no pattern fits
ciFiles(entries) ==
  SelectSeq(entries, LAMBDA e :
    e.type = "blob" /\ e.path # UndefinedPath /\ matchesCiPattern(e.path))

hasGitHubActions(entries) ==
  \E i \in DOMAIN ciFiles(entries) : startsWithWorkflows(ciFiles(entries)[i].path)

collectCi_start(entries) ==
  IF Len(entries) = 0
    THEN Return([has_ci |-> Null, ci_status |-> Null], <<>>)
  ELSE IF Len(ciFiles(entries)) = 0
    THEN Return([has_ci |-> Some(FALSE), ci_status |-> Null], <<>>)
  ELSE IF ~hasGitHubActions(entries)
    THEN Return([has_ci |-> Some(TRUE), ci_status |-> Some("unknown")],
                <<"Non-GitHub CI detected; status unknown">>)
  ELSE Await("runs", <<>>)

\* a day count that rounds to the nearest day
daysSince_rounded(t, updatedAt) == (t - updatedAt + 43200) \div 86400

\* whole days between the run's updated_at and the clock (both epoch seconds)
daysSince(t, updatedAt) == (t - updatedAt) \div 86400

\* data.workflow_runs: a sequence of [conclusion, updated_at]
collectCi_resume(r, t) ==
  IF r.ok THEN
    IF Len(r.data.workflow_runs) = 0
      THEN Return([has_ci |-> Some(TRUE), ci_status |-> Some("unknown")],
                  <<>>)
    ELSE LET run == r.data.workflow_runs[1] IN
      IF daysSince(t, run.updated_at) > STALE_CI_DAYS
        THEN Return([has_ci |-> Some(TRUE), ci_status |-> Some("stale")],
                    <<"Last CI run was "
                        \o ToString(daysSince(t, run.updated_at))
                        \o " days ago (stale)">>)
      ELSE Return([has_ci |-> Some(TRUE),
                   ci_status |-> Some(
                     IF run.conclusion = "success" THEN "passing"
                     ELSE IF run.conclusion = "failure" THEN "failing"
                     ELSE "unknown")], <<>>)
  ELSE Return([has_ci |-> Some(TRUE), ci_status |-> Some("unknown")],
              <<"Could not fetch CI runs: " \o r.error.message>>)

\* ---- collectDocumentation -----------------------------------------------
docsFiles(entries) ==
  SelectSeq(entries, LAMBDA e :
    e.type = "blob" /\ Len(e.path) >= 2 /\ e.path[1] = "docs"
    /\ getExtension(e.path) \in {".md", ".html", ".rst"}
    /\ basename(e.path) # ".gitkeep")

hasReadme(entries) ==
  \E i \in DOMAIN entries :
    entries[i].type = "blob"
    /\ entries[i].path \in {<<"README.md">>, <<"readme.md">>, <<"Readme.md">>}

apiSpecs(entries) ==
  SelectSeq(entries, LAMBDA e :
    e.type = "blob"
    /\ e.path \in {<<"openapi.yaml">>, <<"openapi.yml">>, <<"openapi.json">>,
                   <<"swagger.yaml">>, <<"swagger.yml">>, <<"swagger.json">>})

\* from "Check for OpenAPI specs" to the end of collectDocumentation
collectDocumentation_tail(entries, meta, owner, repo) ==
  IF Len(apiSpecs(entries)) > 0
    THEN Return([has_documentation |-> Some(TRUE),
                 documentation_url |-> Null], <<>>)
  ELSE IF meta # Null /\ meta[1].has_pages
    THEN Return([has_documentation |-> Some(TRUE),
                 documentation_url |->
                   Some("https://" \o owner \o ".github.io/" \o repo)], <<>>)
  ELSE Return([has_documentation |-> Some(FALSE),
               documentation_url |-> Null], <<>>)

collectDocumentation_start(entries, meta, owner, repo) ==
  IF Len(entries) = 0
    THEN Return([has_documentation |-> Some(FALSE),
                 documentation_url |-> Null], <<>>)
  ELSE IF BlobWithoutPath(entries) THEN ThrowStep(<<>>)
  ELSE IF Len(docsFiles(entries)) > 0
    THEN Return([has_documentation |-> Some(TRUE),
                 documentation_url |-> Null], <<>>)
  ELSE IF hasReadme(entries) THEN Await("readme", <<>>)
  ELSE collectDocumentation_tail(entries, meta, owner, repo)

collectDocumentation_resume(r, entries, meta, owner, repo) ==
  IF r.ok /\ r.data.size > README_MIN_BYTES
    THEN Return([has_documentation |-> Some(TRUE),
                 documentation_url |-> Null], <<>>)
    ELSE collectDocumentation_tail(entries, meta, owner, repo)

\* ---- collectTechStack ---------------------------------------------------
RECURSIVE SumBytes(_, _)
SumBytes(langs, names) ==
  IF names = {} THEN 0
  ELSE LET n == CHOOSE x \in names : TRUE
       IN langs[n] + SumBytes(langs, names \ {n})

\* bytes / total > 0.05
majorLanguages(langs) ==
  LET total == SumBytes(langs, DOMAIN langs)
  IN IF total > 0
       THEN {l \in DOMAIN langs : langs[l] * 20 > total}
       ELSE {}

frameworks(entries) ==
  {FRAMEWORK_FILES[basename(entries[i].path)] :
     i \in {j \in DOMAIN entries :
              entries[j].type = "blob"
              /\ basename(entries[j].path) \in DOMAIN FRAMEWORK_FILES}}

collectTechStack_start == Await("languages", <<>>)

collectTechStack_resume(r, entries) ==
  LET push == IF r.ok THEN <<>>
              ELSE <<"Could not fetch languages: " \o r.error.message>>
      stack == (IF r.ok THEN majorLanguages(r.data) ELSE {})
                 \cup frameworks(entries)
  IN IF BlobWithoutPath(entries) THEN ThrowStep(push)
     ELSE Return([tech_stack |->
                    Some(SelectSeq(TagOrder, LAMBDA t : t \in stack))], push)

(***************************************************************************)
(* collectFromGitHub                                                       *)
(***************************************************************************)
\* parseRepoUrl, for the references of the model
Urls == {"https://github.com/acme/app.git", "https://github.com/acme",
         "not-a-url"}
parseRepoUrl(url) ==
  CASE url = "https://github.com/acme/app" ->
         Some([owner |-> "acme", repo |-> "app"])
    [] url = "https://github.com/acme/app.git" ->
         Some([owner |-> "acme", repo |-> "app"])
    [] url = "https://github.com/acme/app/" ->
         Some([owner |-> "acme", repo |-> "app"])
    [] OTHER -> Null

Collectors == 1..7
Activity == 1
Sdk == 2
License == 3
Tests == 4
Ci == 5
Docs == 6
TechStack == 7

\* settled(r): the value of a fulfilled collector, null for a rejected one
settled(status, value) == IF status = "fulfilled" THEN Some(value) ELSE Null

\* a merge that copies only the values that are not null
Copy_nonNull(r, keys) ==
  IF r = Null THEN <<>>
  ELSE [k \in {x \in keys : r[1][x] # Null} |-> r[1][k]]

\* one `if (x) { fields.k = x.k }` of the merge
Copy(r, keys) == IF r = Null THEN <<>> ELSE [k \in keys |-> r[1][k]]

\* the documentation branch: the url is copied only when it is truthy
CopyDocs(r) ==
  IF r = Null THEN <<>>
  ELSE IF r[1].documentation_url # Null
    THEN [k \in {"has_documentation", "documentation_url"} |-> r[1][k]]
  ELSE [k \in {"has_documentation"} |-> r[1][k]]

\* the fields object after the seven `if` statements that follow allSettled;
\* st and val give the status and the value of each collector's promise
mergeFields(st, val) ==
  Copy(settled(st[Activity], val[Activity]), {"last_verified_activity"})
  @@ Copy(settled(st[Sdk], val[Sdk]), {"canton_sdk_version"})
  @@ Copy(settled(st[License], val[License]), {"license_type"})
  @@ Copy(settled(st[Tests], val[Tests]), {"has_tests", "test_count"})
  @@ Copy(settled(st[Ci], val[Ci]), {"has_ci", "ci_status"})
  @@ CopyDocs(settled(st[Docs], val[Docs]))
  @@ Copy(settled(st[TechStack], val[TechStack]), {"tech_stack"})

\* ---- what the upstream API answers to the calls of the orchestration ----
MetaOutcomes ==
  { Ok([archived |-> FALSE, has_pages |-> FALSE, default_branch |-> "main",
        fork |-> FALSE]),
    Ok([archived |-> TRUE, has_pages |-> TRUE, default_branch |-> "main",
        fork |-> FALSE]),
    Err(NotFound), Err(ServerError) }
TreeOutcomes ==
  { Ok([tree |-> TreeEmpty, truncated |-> FALSE]),
    Ok([tree |-> TreeApp, truncated |-> FALSE]),
    Ok([tree |-> TreeApp, truncated |-> TRUE]),
    Ok([tree |-> TreeDocs, truncated |-> FALSE]),
    Ok([tree |-> TreeBroken, truncated |-> FALSE]),
    Err(Conflict), Err(ServerError) }
CommitDate == << "2", "0", "2", "4", "-", "0", "5", "-", "0", "1", "T",
                 "1", "0", ":", "0", "0", ":", "0", "0", "Z" >>
CommitsOutcomes ==
  { Ok([wellFormed |-> TRUE, dates |-> <<CommitDate>>]),
    Ok([wellFormed |-> TRUE, dates |-> <<>>]),
    Ok([wellFormed |-> FALSE, dates |-> << <<>> >>]),
    Err(Conflict), Err(ServerError) }
Yaml(v) == << [key |-> "name", value |-> "app"],
              [key |-> "sdk-version", value |-> v] >>
YamlWithoutVersion == << [key |-> "name", value |-> "app"] >>
File(text) == Ok([content |-> Base64(text), encoding |-> "base64"])
RootOutcomes == { File(Yaml("2.9.0")), Err(NotFound), Err(ServerError) }
ScanOutcomes == { File(Yaml("2.7.0")), File(YamlWithoutVersion),
                  Err(ServerError) }
LicenseOutcomes ==
  { Ok([license |-> Some([spdx_id |-> "MIT"])]),
    Ok([license |-> Some([spdx_id |-> "NOASSERTION"])]),
    Ok([license |-> Null]),
    Err(NotFound) }
RunsOutcomes(t) ==
  { Ok([workflow_runs |->
          << [conclusion |-> "success", updated_at |-> t - 10 * 86400] >>]),
    Err(ServerError) }
ReadmeOutcomes == { Ok([size |-> 600]), Ok([size |-> 400]),
                    Err(ServerError) }
LanguagesOutcomes ==
  { Ok([l \in {"TypeScript", "Haskell", "Go"} |->
          CASE l = "TypeScript" -> 8000 [] l = "Haskell" -> 1500
            [] OTHER -> 200]),
    Err(ServerError) }

\* the snapshot after the response of one more request: the API reports one
\* request less remaining
afterResponse(rl) ==
  updateRateLimit(rl, [remaining |-> FormatDecimal(rl.remaining - 1),
                       reset |-> NoHeader])

\* entries of the access log: object, owner (0: shared), who (0: the
\* orchestrator, else the collector), mode
Touch(obj, owner, who, mode) == <<obj, owner, who, mode>>

CollectInit ==
  /\ now = StartEpoch + 200 * 86400
  /\ lastRateLimit = [remaining |-> 5000, reset |-> 0]
  /\ pc = "idle"
  /\ attempt = 0
  /\ lastError = Null
  /\ response = Null
  /\ outcome = Pending
  /\ log = <<>>
  /\ earlier = 0
  /\ repoUrl \in Urls
  /\ opc = "start"
  /\ oresult = "pending"
  /\ parsed = [owner |-> "", repo |-> ""]
  /\ repoMeta = Null
  /\ tree = <<>>
  /\ treeTruncated = FALSE
  /\ fields = <<>>
  /\ notes = <<>>
  /\ launched = 0
  /\ cpc = [c \in Collectors |-> "unlaunched"]
  /\ cstatus = [c \in Collectors |-> "none"]
  /\ cvalue = [c \in Collectors |-> <<>>]
  /\ scanIndex = 0
  /\ versions = <<>>
  /\ access = {}
  /\ requests = [e \in Endpoints |-> 0]
  /\ rejection = Null
  /\ failed = {}
  /\ prereq = [meta |-> Null, tree |-> Null]
  /\ DataIdle
  /\ NoCalls

collectorVars == <<cpc, cstatus, cvalue, scanIndex, versions>>

\* a run that goes on to the metadata call whatever the reference is
ParseUrl_proceed ==
  /\ opc = "start"
  /\ parsed' = IF parseRepoUrl(repoUrl) = Null THEN parsed
               ELSE parseRepoUrl(repoUrl)[1]
  /\ opc' = "meta"
  /\ access' = access \cup {Touch("rateLimit", 0, 0, "read")}
  /\ requests' = [requests EXCEPT !["meta"] = @ + 1]
  /\ UNCHANGED <<notes, oresult>>
  /\ UNCHANGED <<repoUrl, repoMeta, tree, treeTruncated, fields, launched,
                 collectorVars, lastRateLimit, getVars, rejection, failed,
                 prereq>>

\* collectFromGitHub up to its first await
ParseUrl ==
  /\ opc = "start"
  /\ IF parseRepoUrl(repoUrl) = Null
       THEN /\ notes' = <<"Could not parse repo URL: " \o repoUrl>>
            /\ opc' = "done"
            /\ oresult' = "resolved"
            /\ UNCHANGED <<parsed, access, requests>>
       ELSE /\ parsed' = parseRepoUrl(repoUrl)[1]
            /\ opc' = "meta"
            /\ access' = access \cup {Touch("rateLimit", 0, 0, "read")}
            /\ requests' = [requests EXCEPT !["meta"] = @ + 1]
            /\ UNCHANGED <<notes, oresult>>
  /\ UNCHANGED <<repoUrl, repoMeta, tree, treeTruncated, fields, launched,
                 collectorVars, lastRateLimit, getVars, rejection, failed,
                 prereq>>

\* a catch block that takes every failure for a missing repository
isNotFound_any(e) == TRUE

\* isGitHubError(error) && error.status === 404, for what client.get throws
isNotFound(e) == e.status = 404

\* the metadata call settles
MetaSettles ==
  /\ opc = "meta"
  /\ \E r \in MetaOutcomes :
       IF r.ok
         THEN /\ repoMeta' = Some(r.data)
              /\ notes' = IF r.data.archived
                            THEN Append(notes, "Repository is archived")
                            ELSE notes
              /\ opc' = "tree"
              /\ oresult' = oresult
              /\ requests' = [requests EXCEPT !["tree"] = @ + 1]
              /\ rejection' = rejection
              /\ prereq' = [prereq EXCEPT !.meta = Some(r)]
         ELSE IF isNotFound(r.error)
           THEN /\ notes' = Append(notes, "Repository not found")
                /\ opc' = "done"
                /\ oresult' = "resolved"
                /\ prereq' = [prereq EXCEPT !.meta = Some(r)]
                /\ UNCHANGED <<repoMeta, requests, rejection>>
           ELSE /\ opc' = "failed"
                /\ oresult' = "rejected"
                /\ rejection' = Some(r.error)
                /\ prereq' = [prereq EXCEPT !.meta = Some(r)]
                /\ UNCHANGED <<repoMeta, notes, requests>>
  /\ lastRateLimit' = afterResponse(lastRateLimit)
  /\ access' = access \cup {Touch("rateLimit", 0, 0, "write")}
                      \cup (IF opc' = "tree"
                              THEN {Touch("rateLimit", 0, 0, "read")} ELSE {})
                      \cup (IF notes' # notes
                              THEN {Touch("notes", 0, 0, "write")} ELSE {})
  /\ UNCHANGED <<repoUrl, parsed, tree, treeTruncated, fields, launched,
                 collectorVars, getVars, failed>>

\* the tree call settles
TreeSettles ==
  /\ opc = "tree"
  /\ \E r \in TreeOutcomes :
       /\ IF r.ok
         THEN /\ tree' = r.data.tree
              /\ treeTruncated' = r.data.truncated
              /\ notes' = IF r.data.truncated
                            THEN Append(notes,
                                   "Repository too large for complete scan")
                            ELSE notes
         ELSE /\ notes' = Append(notes,
                   IF r.error.status = 409 THEN "Empty repository"
                   ELSE "Could not fetch file tree: " \o r.error.message)
              /\ UNCHANGED <<tree, treeTruncated>>
       /\ prereq' = [prereq EXCEPT !.tree = Some(r)]
  /\ opc' = "launch"
  /\ lastRateLimit' = afterResponse(lastRateLimit)
  /\ access' = access \cup {Touch("rateLimit", 0, 0, "write")}
                      \cup (IF notes' # notes
                              THEN {Touch("notes", 0, 0, "write")} ELSE {})
  /\ UNCHANGED <<repoUrl, oresult, parsed, repoMeta, fields, launched,
                 collectorVars, getVars, requests, rejection, failed>>

\* what collector c does when it is called: its code up to the first await
startStep(c) ==
  CASE c = Activity -> collectLastActivity_start
    [] c = Sdk -> collectSdkVersion_start
    [] c = License -> collectLicense_start
    [] c = Tests -> collectTests(tree, treeTruncated)
    [] c = Ci -> collectCi_start(tree)
    [] c = Docs ->
         collectDocumentation_start(tree, repoMeta, parsed.owner, parsed.repo)
    [] OTHER -> collectTechStack_start

\* collectors that put what they return into one object they all share
touched_sharedResult(c, step, afterGet) ==
  (IF afterGet THEN {Touch("rateLimit", 0, c, "write")} ELSE {})
  \cup (IF step.kind = "await" THEN {Touch("rateLimit", 0, c, "read")} ELSE {})
  \cup (IF step.push # <<>> THEN {Touch("notes", 0, c, "write")} ELSE {})
  \cup (IF step.kind = "return" THEN {Touch("result", 0, c, "write")} ELSE {})

\* the objects collector c touches while it makes step `step`; afterGet
\* tells that the step starts with the response of a client call
touched(c, step, afterGet) ==
  (IF afterGet THEN {Touch("rateLimit", 0, c, "write")} ELSE {})
  \cup (IF step.kind = "await" THEN {Touch("rateLimit", 0, c, "read")} ELSE {})
  \cup (IF step.push # <<>> THEN {Touch("notes", 0, c, "write")} ELSE {})
  \cup (IF step.kind = "return" THEN {Touch("result", c, c, "write")} ELSE {})

\* collector c runs from where it was to its next await, return or throw
advance(c, step, afterGet) ==
  /\ notes' = notes \o step.push
  /\ cpc' = [cpc EXCEPT ![c] = IF step.kind = "await" THEN step.at
                               ELSE "settled"]
  /\ cstatus' = [cstatus EXCEPT ![c] =
                   CASE step.kind = "return" -> "fulfilled"
                     [] step.kind = "throw" -> "rejected"
                     [] OTHER -> "pending"]
  /\ cvalue' = [cvalue EXCEPT ![c] = step.value]
  /\ access' = access \cup touched(c, step, afterGet)
  /\ requests' = IF step.kind = "await"
                   THEN [requests EXCEPT ![step.at] = @ + 1]
                   ELSE requests
  /\ lastRateLimit' = IF afterGet THEN afterResponse(lastRateLimit)
                      ELSE lastRateLimit

\* The next element of the array literal handed to Promise.allSettled is
\* evaluated: the collector is called.  An async collector always hands back
\* a promise; collectTests is a plain function, so what it throws leaves
\* collectFromGitHub before allSettled is reached.
LaunchNext ==
  /\ opc = "launch"
  /\ launched < 7
  /\ LET c == launched + 1
         step == startStep(c)
     IN IF c = Tests /\ step.kind = "throw"
          THEN /\ opc' = "failed"
               /\ oresult' = "rejected"
               /\ notes' = notes \o step.push
               /\ cpc' = [cpc EXCEPT ![c] = "settled"]
               /\ cstatus' = [cstatus EXCEPT ![c] = "thrown"]
               /\ rejection' = Some(TypeError)
               /\ UNCHANGED <<launched, cvalue, access, lastRateLimit,
                              requests>>
          ELSE /\ advance(c, step, FALSE)
               /\ launched' = c
               /\ opc' = IF c = 7 THEN "await" ELSE "launch"
               /\ oresult' = oresult
               /\ rejection' = rejection
  /\ UNCHANGED <<repoUrl, parsed, repoMeta, tree, treeTruncated, fields,
                 scanIndex, versions, getVars, failed, prereq>>

\* a collector may run again once the synchronous launch is over
Running(c, label) == opc # "launch" /\ cpc[c] = label

orchestratorVars == <<repoUrl, opc, oresult, parsed, repoMeta, tree,
                      treeTruncated, fields, launched, rejection, prereq>>

ActivityResumes ==
  /\ Running(Activity, "commits")
  /\ \E r \in CommitsOutcomes :
       /\ advance(Activity, collectLastActivity_resume(r), TRUE)
       /\ failed' = IF r.ok THEN failed ELSE failed \cup {Activity}
  /\ UNCHANGED <<orchestratorVars, scanIndex, versions, getVars>>

SdkRootResumes ==
  /\ Running(Sdk, "root")
  /\ \E r \in RootOutcomes :
       /\ advance(Sdk, collectSdkVersion_root(r, tree), TRUE)
       /\ failed' = IF getFileContent(r).thrown THEN failed \cup {Sdk}
                    ELSE failed
  /\ scanIndex' = 1
  /\ versions' = <<>>
  /\ UNCHANGED <<orchestratorVars, getVars>>

SdkScanResumes ==
  /\ Running(Sdk, "scan")
  /\ \E r \in ScanOutcomes :
       /\ advance(Sdk,
                  collectSdkVersion_scan(r, tree, scanIndex, versions), TRUE)
       /\ versions' = scanned(versions, getFileContent(r))
       /\ failed' = IF getFileContent(r).thrown THEN failed \cup {Sdk}
                    ELSE failed
  /\ scanIndex' = scanIndex + 1
  /\ UNCHANGED <<orchestratorVars, getVars>>

LicenseResumes ==
  /\ Running(License, "license")
  /\ \E r \in LicenseOutcomes :
       /\ advance(License, collectLicense_resume(r), TRUE)
       /\ failed' = IF r.ok THEN failed ELSE failed \cup {License}
  /\ UNCHANGED <<orchestratorVars, scanIndex, versions, getVars>>

CiResumes ==
  /\ Running(Ci, "runs")
  /\ \E r \in RunsOutcomes(now) :
       /\ advance(Ci, collectCi_resume(r, now), TRUE)
       /\ failed' = IF r.ok THEN failed ELSE failed \cup {Ci}
  /\ UNCHANGED <<orchestratorVars, scanIndex, versions, getVars>>

DocsResumes ==
  /\ Running(Docs, "readme")
  /\ \E r \in ReadmeOutcomes :
       /\ advance(Docs,
                  collectDocumentation_resume(r, tree, repoMeta, parsed.owner,
                                              parsed.repo), TRUE)
       /\ failed' = IF r.ok THEN failed ELSE failed \cup {Docs}
  /\ UNCHANGED <<orchestratorVars, scanIndex, versions, getVars>>

TechStackResumes ==
  /\ Running(TechStack, "languages")
  /\ \E r \in LanguagesOutcomes :
       /\ advance(TechStack, collectTechStack_resume(r, tree), TRUE)
       /\ failed' = IF r.ok THEN failed ELSE failed \cup {TechStack}
  /\ UNCHANGED <<orchestratorVars, scanIndex, versions, getVars>>

\* Promise.allSettled resolves: the merge and the return
Merge ==
  /\ opc = "await"
  /\ \A c \in Collectors : cstatus[c] \in {"fulfilled", "rejected"}
  /\ fields' = mergeFields(cstatus, cvalue)
  /\ opc' = "done"
  /\ oresult' = "resolved"
  /\ access' = access \cup {Touch("fields", 0, 0, "write")}
  /\ UNCHANGED <<repoUrl, parsed, repoMeta, tree, treeTruncated, notes,
                 launched, collectorVars, lastRateLimit, getVars, requests,
                 rejection, failed, prereq>>

CollectNext ==
  \/ ParseUrl
  \/ MetaSettles
  \/ TreeSettles
  \/ LaunchNext
  \/ ActivityResumes
  \/ SdkRootResumes
  \/ SdkScanResumes
  \/ LicenseResumes
  \/ CiResumes
  \/ DocsResumes
  \/ TechStackResumes
  \/ Merge

\* one collectFromGitHub run on a fresh client
SpecCollect == CollectInit /\ [][CollectNext]_vars

(***************************************************************************)
(* confidence: tiers, the confidence map of a record                       *)
(***************************************************************************)
\* A record is a function from the names of its fields to their values: Null
\* for null, Undefined for a key that holds undefined, <<v>> for a value v;
\* a tier is <<"verified">>, <<"self_reported">> or <<"auto_detected">>.
Undefined == <<"undefined", "undefined">>

OBSERVATORY_MANAGED_FIELDS ==
  {"project_id", "category", "created_at", "updated_at", "claimed",
   "claimed_by", "claimed_at", "data_confidence", "last_auto_refresh",
   "notes", "partnerships"}
AUTO_DETECTED_FIELDS ==
  {"last_verified_activity", "canton_sdk_version", "license_type",
   "has_tests", "test_count", "has_ci", "ci_status", "has_documentation",
   "documentation_url", "tech_stack"}
MANUALLY_VERIFIED_FIELDS ==
  {"foundation_member", "validator_status", "featured_app", "security_audit",
   "status"}

Tiers == {Some("verified"), Some("self_reported"), Some("auto_detected")}
TierOrNull == Tiers \cup {Null}

\* a rating that leaves self-reported fields without a tier
assignTier_unrated(fieldName, fieldValue, source) ==
  IF fieldValue = Null \/ fieldValue = Undefined THEN Null
  ELSE IF fieldName \in OBSERVATORY_MANAGED_FIELDS THEN Null
  ELSE IF source = "manual" THEN Some("verified")
  ELSE IF source = "self_reported" THEN Null
  ELSE Some("auto_detected")

assignTier(fieldName, fieldValue, source) ==
  IF fieldValue = Null \/ fieldValue = Undefined THEN Null
  ELSE IF fieldName \in OBSERVATORY_MANAGED_FIELDS THEN Null
  ELSE IF source = "manual" THEN Some("verified")
  ELSE IF source = "self_reported" THEN Some("self_reported")
  ELSE Some("auto_detected")

\* a default source that changes from one run to the next
defaultSourceForField_perRun(fieldName) ==
  IF runs > 0 THEN "manual"
  ELSE IF fieldName \in AUTO_DETECTED_FIELDS THEN "auto"
  ELSE IF fieldName \in MANUALLY_VERIFIED_FIELDS THEN "manual"
  ELSE "self_reported"

defaultSourceForField(fieldName) ==
  IF fieldName \in AUTO_DETECTED_FIELDS THEN "auto"
  ELSE IF fieldName \in MANUALLY_VERIFIED_FIELDS THEN "manual"
  ELSE "self_reported"

\* a table that accepts every move
isValidTransition_anyMove(from, to) == TRUE

\* a transition table without the claimant override
isValidTransition_noOverride(from, to) ==
  IF from = Null \/ to = Null THEN TRUE
  ELSE IF from = Some("auto_detected") /\ to = Some("verified") THEN TRUE
  ELSE IF from = Some("self_reported") /\ to = Some("verified") THEN TRUE
  ELSE IF from = Some("verified") /\ to = Some("self_reported") THEN TRUE
  ELSE IF from = to THEN TRUE
  ELSE FALSE

isValidTransition(from, to) ==
  IF from = Null \/ to = Null THEN TRUE
  ELSE IF from = Some("auto_detected") /\ to = Some("verified") THEN TRUE
  ELSE IF from = Some("self_reported") /\ to = Some("verified") THEN TRUE
  ELSE IF from = Some("verified") /\ to = Some("self_reported") THEN TRUE
  ELSE IF from = to THEN TRUE
  ELSE IF from = Some("auto_detected") /\ to = Some("self_reported") THEN TRUE
  ELSE FALSE

\* existingConfidence?.[key]: Undefined when there is no map or no such key;
\* the optional argument is Null when it is left out, <<map>> otherwise
existingTier(existingConfidence, key) ==
  IF existingConfidence = Null THEN Undefined
  ELSE IF key \notin DOMAIN existingConfidence[1] THEN Undefined
  ELSE existingConfidence[1][key]

\* a builder that lets the supplied tier win even over a null value
confidenceEntry_existingFirst(project, existingConfidence, key) ==
  LET existing == existingTier(existingConfidence, key) IN
  IF existing # Undefined /\ existing # Null THEN existing
  ELSE assignTier(key, project[key], defaultSourceForField(key))

\* the body of the loop of buildConfidenceMap for a key that is not managed
confidenceEntry(project, existingConfidence, key) ==
  LET value == project[key]
      existing == existingTier(existingConfidence, key)
  IN IF value = Null \/ value = Undefined THEN Null
     ELSE IF existing # Undefined /\ existing # Null THEN existing
     ELSE assignTier(key, value, defaultSourceForField(key))

buildConfidenceMap(project, existingConfidence) ==
  [key \in {k \in DOMAIN project : k \notin OBSERVATORY_MANAGED_FIELDS} |->
     confidenceEntry(project, existingConfidence, key)]

\* an error string, kept together with the field it was made for
FieldError(field, text) == [field |-> field, message |-> text]

\* the order in which the keys of a confidence map are visited
ConfidenceKeyOrder ==
  <<"project_id", "display_name", "has_tests", "status", "network",
    "nonexistent_field">>

\* a validator that forgets the `value !== null && tier === null` test
entryErrors_oneWay(project, field, tier) ==
  IF field \in OBSERVATORY_MANAGED_FIELDS
    THEN << FieldError(field, "Field \"" \o field
              \o "\" is observatory-managed and should not have a "
              \o "confidence tier") >>
  ELSE IF field \notin DOMAIN project
    THEN << FieldError(field, "Confidence tier for \"" \o field
              \o "\" but field does not exist on project") >>
  ELSE IF project[field] = Null /\ tier # Null
    THEN << FieldError(field, "Field \"" \o field
              \o "\" is null but has confidence tier \"" \o tier[1]
              \o "\"") >>
  ELSE <<>>

\* the body of the loop of validateConfidenceMap
entryErrors(project, field, tier) ==
  IF field \in OBSERVATORY_MANAGED_FIELDS
    THEN << FieldError(field, "Field \"" \o field
              \o "\" is observatory-managed and should not have a "
              \o "confidence tier") >>
  ELSE IF field \notin DOMAIN project
    THEN << FieldError(field, "Confidence tier for \"" \o field
              \o "\" but field does not exist on project") >>
  ELSE (IF project[field] = Null /\ tier # Null
          THEN << FieldError(field, "Field \"" \o field
                    \o "\" is null but has confidence tier \"" \o tier[1]
                    \o "\"") >>
          ELSE <<>>)
       \o (IF project[field] # Null /\ tier = Null
             THEN << FieldError(field, "Field \"" \o field
                       \o "\" has value but confidence tier is null") >>
             ELSE <<>>)

RECURSIVE Concat(_)
Concat(seqs) ==
  IF seqs = <<>> THEN <<>>
  ELSE Concat(SubSeq(seqs, 1, Len(seqs) - 1)) \o seqs[Len(seqs)]

\* Object.keys(map), in the order of ConfidenceKeyOrder
keysOf(map) == SelectSeq(ConfidenceKeyOrder, LAMBDA k : k \in DOMAIN map)

validateConfidenceMap(project) ==
  LET confidence == project["data_confidence"]
      keys == keysOf(confidence)
  IN Concat([i \in DOMAIN keys |->
               entryErrors(project, keys[i], confidence[keys[i]])])

\* ---- the arguments the functions are applied to -------------------------
FieldValues == {Null, Undefined, Some("x")}
BuildKeys == {"project_id", "display_name", "has_tests", "status"}
BuildRecords == UNION {[S -> FieldValues] : S \in SUBSET BuildKeys}
ExistingMaps ==
  {Null} \cup
  {Some(m) : m \in
     UNION {[S -> {Null, Some("verified"), Some("self_reported")}] :
              S \in SUBSET (BuildKeys \ {"project_id"})}}
ValidateKeys == {"project_id", "display_name", "has_tests"}
ValidateRecords == UNION {[S -> FieldValues] : S \in SUBSET ValidateKeys}
ConfidenceMaps ==
  UNION {[S -> {Null, Some("verified")}] :
           S \in SUBSET (ValidateKeys \cup {"nonexistent_field"})}
\* the record r with the confidence map m attached
WithConfidence(r, m) ==
  [k \in DOMAIN r \cup {"data_confidence"} |->
     IF k = "data_confidence" THEN m ELSE r[k]]

MaxRuns == 2

(***************************************************************************)
(* validate-data: the checks of a dataset                                  *)
(***************************************************************************)
\* A project_id is the sequence of its characters; a dataset is an array of
\* records or a value that is no array.
LowerAlnum ==
  {"a", "b", "c", "d", "e", "f", "g", "h", "i", "j", "k", "l", "m", "n", "o",
   "p", "q", "r", "s", "t", "u", "v", "w", "x", "y", "z", "0", "1", "2", "3",
   "4", "5", "6", "7", "8", "9"}
\* /^[a-z0-9]([a-z0-9-]*[a-z0-9])?$/.test(id)
idPattern(id) ==
  /\ Len(id) >= 1
  /\ id[1] \in LowerAlnum
  /\ Len(id) > 1 =>
       /\ id[Len(id)] \in LowerAlnum
       /\ \A i \in 2..(Len(id) - 1) : id[i] \in LowerAlnum \cup {"-"}

\* an error string: the check that pushed it and what its text names
DatasetError(check, path, project, field, ref) ==
  [check |-> check, path |-> path, project |-> project, field |-> field,
   ref |-> ref]

Array(items) == [isArray |-> TRUE, items |-> items]
NotAnArray == [isArray |-> FALSE, items |-> <<>>]

\* the properties the schema requires of a record, in the order it lists them
RequiredFields ==
  <<"project_id", "partnerships", "has_tests", "launch_date",
    "data_confidence">>
\* the errors of the compiled schema for one record at index i (from 0)
schemaItemErrors(item, i) ==
  Concat([n \in DOMAIN RequiredFields |->
            IF RequiredFields[n] \in DOMAIN item THEN <<>>
            ELSE <<DatasetError("schema", <<i>>, <<>>, RequiredFields[n],
                                <<>>)>>])
\* createValidator()(data): allErrors, one error per violation
schemaValidate(data) ==
  LET errors ==
        IF ~data.isArray
          THEN <<DatasetError("schema", <<>>, <<>>, "(root)", <<>>)>>
        ELSE Concat([i \in DOMAIN data.items |->
                       schemaItemErrors(data.items[i], i - 1)])
  IN [valid |-> errors = <<>>, errors |-> errors]

\* what a check did: the errors it returned, or the TypeError it threw
Returned(errors) == [thrown |-> FALSE, errors |-> errors]
Thrown == [thrown |-> TRUE, errors |-> <<>>]

checkUniqueIds(projects) ==
  Returned(Concat([i \in DOMAIN projects |->
    IF \E j \in 1..(i - 1) :
         projects[j]["project_id"] = projects[i]["project_id"]
      THEN <<DatasetError("unique", <<>>, projects[i]["project_id"], "",
                          <<>>)>>
    ELSE <<>>]))

checkIdFormat(projects) ==
  Returned(Concat([i \in DOMAIN projects |->
    IF idPattern(projects[i]["project_id"]) THEN <<>>
    ELSE <<DatasetError("format", <<>>, projects[i]["project_id"], "",
                        <<>>)>>]))

\* `for (const partner of p.partnerships)` throws when p has no partnerships
checkPartnershipRefs(projects) ==
  LET ids == {projects[i]["project_id"] : i \in DOMAIN projects}
      refErrors(q) ==
        Concat([n \in DOMAIN q["partnerships"] |->
          IF q["partnerships"][n] \in ids THEN <<>>
          ELSE <<DatasetError("partnership", <<>>, q["project_id"], "",
                              q["partnerships"][n])>>])
  IN IF \E i \in DOMAIN projects : "partnerships" \notin DOMAIN projects[i]
       THEN Thrown
     ELSE Returned(Concat([i \in DOMAIN projects |->
                             refErrors(projects[i])]))

\* the second loop of checkConfidenceKeys, for one entry of the map
confidenceNullErrors(q, key) ==
  LET tier == q["data_confidence"][key]
  IN IF key \in DOMAIN q /\ q[key] = Null /\ tier # Null
       THEN <<DatasetError("confidence-null", <<>>, q["project_id"], key,
                           <<>>)>>
     ELSE <<>>

\* the first loop of checkConfidenceKeys, for one key of the map
confidenceKeyErrors(q, key) ==
  IF key \in OBSERVATORY_MANAGED_FIELDS
    THEN <<DatasetError("confidence-managed", <<>>, q["project_id"], key,
                        <<>>)>>
  ELSE IF key \notin DOMAIN q
    THEN <<DatasetError("confidence-unknown", <<>>, q["project_id"], key,
                        <<>>)>>
  ELSE <<>>

\* `Object.keys(p.data_confidence)` throws when p has no data_confidence
checkConfidenceKeys(projects) ==
  LET perProject(q) ==
        LET keys == keysOf(q["data_confidence"])
        IN Concat([n \in DOMAIN keys |-> confidenceKeyErrors(q, keys[n])])
           \o Concat([n \in DOMAIN keys |->
                        confidenceNullErrors(q, keys[n])])
  IN IF \E i \in DOMAIN projects :
          "data_confidence" \notin DOMAIN projects[i]
       THEN Thrown
     ELSE Returned(Concat([i \in DOMAIN projects |->
                             perProject(projects[i])]))

\* the strings Date.parse turns into a number; every other one gives NaN
ParseableDates == {"2024-06-01", "2025-01-01T00:00:00Z"}
DateParseIsNaN(val) == val \notin ParseableDates

dateFields == <<"last_verified_activity", "launch_date", "onchain_since">>
datetimeFields ==
  <<"created_at", "updated_at", "claimed_at", "last_auto_refresh">>

\* `typeof val === "string" && isNaN(Date.parse(val))` for record[field]
badDate(q, field) ==
  /\ field \in DOMAIN q
  /\ q[field] # Null
  /\ DateParseIsNaN(q[field][1])

checkDateFields(projects) ==
  LET perProject(q) ==
        Concat([n \in DOMAIN dateFields |->
          IF badDate(q, dateFields[n])
            THEN <<DatasetError("date", <<>>, q["project_id"],
                                dateFields[n], <<>>)>>
          ELSE <<>>])
        \o Concat([n \in DOMAIN datetimeFields |->
          IF badDate(q, datetimeFields[n])
            THEN <<DatasetError("datetime", <<>>, q["project_id"],
                                datetimeFields[n], <<>>)>>
          ELSE <<>>])
  IN Returned(Concat([i \in DOMAIN projects |-> perProject(projects[i])]))

\* what a validateDataset call does: it returns a result or throws
Result(valid, errors) ==
  [thrown |-> FALSE, valid |-> valid, errors |-> errors]
Throws == [thrown |-> TRUE, valid |-> FALSE, errors |-> <<>>]

validateDataset(data) ==
  LET schemaResult == schemaValidate(data)
      projects == data.items
      unique == checkUniqueIds(projects)
      format == checkIdFormat(projects)
      refs == checkPartnershipRefs(projects)
      keys == checkConfidenceKeys(projects)
      dates == checkDateFields(projects)
      allErrors == schemaResult.errors \o unique.errors \o format.errors
                     \o refs.errors \o keys.errors \o dates.errors
  IN IF ~data.isArray THEN Result(FALSE, schemaResult.errors)
     ELSE IF refs.thrown \/ keys.thrown THEN Throws
     ELSE Result(allErrors = <<>>, allErrors)

\* ---- the datasets validateDataset is applied to --------------------------
Ids == {<<"a">>, <<"b">>, <<"a", "-">>}
UnknownId == <<"z">>
\* a record that passes every check
Plain ==
  [partnerships |-> <<>>, has_tests |-> Null, launch_date |-> Null,
   data_confidence |-> [has_tests |-> Null, launch_date |-> Null]]
With(r, k, v) == [f \in DOMAIN r \cup {k} |-> IF f = k THEN v ELSE r[f]]
Without(r, k) == [f \in DOMAIN r \ {k} |-> r[f]]
Tested == With(Plain, "has_tests", Some(TRUE))
Shapes ==
  { Plain,
    With(Tested, "data_confidence",
         [has_tests |-> Some("auto_detected"), launch_date |-> Null]),
    With(Plain, "data_confidence",
         [has_tests |-> Some("auto_detected"), launch_date |-> Null]),
    Tested,
    With(Tested, "data_confidence", [launch_date |-> Null]),
    With(Plain, "data_confidence",
         [has_tests |-> Null, launch_date |-> Null,
          project_id |-> Some("verified")]),
    With(Plain, "data_confidence",
         [has_tests |-> Null, launch_date |-> Null,
          nonexistent_field |-> Some("verified")]),
    With(Plain, "partnerships", <<<<"a">>>>),
    With(Plain, "partnerships", <<UnknownId>>),
    Without(Plain, "partnerships"),
    Without(Plain, "data_confidence"),
    With(With(Plain, "launch_date", Some("2024-06-01")), "data_confidence",
         [has_tests |-> Null, launch_date |-> Some("self_reported")]),
    With(With(Plain, "launch_date", Some("not-a-date")), "data_confidence",
         [has_tests |-> Null, launch_date |-> Some("self_reported")]),
    With(Plain, "created_at", Some("yesterday")) }
DatasetRecords == {With(r, "project_id", id) : r \in Shapes, id \in Ids}
MaxRecords == 2
RECURSIVE ArraysOf(_, _)
ArraysOf(S, n) ==
  IF n = 0 THEN {<<>>}
  ELSE LET shorter == ArraysOf(S, n - 1)
       IN shorter \cup {Append(a, r) : a \in shorter, r \in S}
Datasets ==
  {NotAnArray} \cup {Array(a) : a \in ArraysOf(DatasetRecords, MaxRecords)}

(***************************************************************************)
(* collect-github: one collector run to its end on given answers           *)
(***************************************************************************)
\* collectSdkVersion's loop over damlYamls from file i on; contents[i] is
\* what the client answers for file i
RECURSIVE scanLoop(_, _, _, _)
scanLoop(entries, contents, i, found) ==
  LET step == collectSdkVersion_scan(contents[i], entries, i, found)
  IN IF step.kind = "await"
       THEN scanLoop(entries, contents, i + 1,
                     scanned(found, getFileContent(contents[i])))
     ELSE step

\* collectSdkVersion(client, owner, repo, tree, notes), run to its end
collectSdkVersion(root, entries, contents) ==
  LET step == collectSdkVersion_root(root, entries)
  IN IF step.kind = "await" THEN scanLoop(entries, contents, 1, <<>>)
     ELSE step

\* the listing of a tree whose blobs are the daml.yaml files `files`, and the
\* client's answers for them
TreeOf(files) == [i \in DOMAIN files |-> Blob(<<files[i].dir, "daml.yaml">>)]
AnswersOf(files) == [i \in DOMAIN files |-> files[i].answer]

\* collectCi(client, owner, repo, tree, notes), run to its end at time t
\* with the answer r of the runs call
collectCi(entries, r, t) ==
  LET step == collectCi_start(entries)
  IN IF step.kind = "await" THEN collectCi_resume(r, t) ELSE step

\* the clock of a collectCi run and the ages, in seconds, of the run it finds
CiClock == 400 * 86400
RunAges ==
  {0, 89 * 86400, 90 * 86400, 90 * 86400 + 1, 91 * 86400 - 1, 91 * 86400,
   300 * 86400}
Conclusions == {"success", "failure", "cancelled"}
CiAnswers ==
  {Ok([workflow_runs |-> <<>>]), Err(ServerError)}
    \cup {Ok([workflow_runs |->
                <<[conclusion |-> c, updated_at |-> CiClock - age]>>]) :
            c \in Conclusions, age \in RunAges}
CiTrees == {TreeEmpty, TreeApp, TreeDocs}

\* collectDocumentation(client, owner, repo, tree, repoMeta, notes), run to
\* its end with the answer r of the README call
collectDocumentation(entries, meta, owner, repo, r) ==
  LET step == collectDocumentation_start(entries, meta, owner, repo)
  IN IF step.kind = "await"
       THEN collectDocumentation_resume(r, entries, meta, owner, repo)
     ELSE step

TreeReadme == << Blob(<<"README.md">>), Blob(<<"src", "Main.daml">>) >>
TreeApi == << Blob(<<"README.md">>), Blob(<<"openapi.yaml">>) >>
TreePlaceholder == << Blob(<<"docs", ".gitkeep">>), Dir(<<"src">>) >>
DocTrees == {TreeEmpty, TreeDocs, TreeReadme, TreeApi, TreePlaceholder}
DocMetas ==
  {Null} \cup
  {Some([archived |-> FALSE, has_pages |-> pages, default_branch |-> "main",
         fork |-> FALSE]) : pages \in BOOLEAN}
DocAnswers == {Ok([size |-> 500]), Ok([size |-> 501]), Err(ServerError)}

SdkVersions == {"2.7.0", "2.9.0", "2.8.1", "2.10", "2.10.0"}
SdkAnswers ==
  {File(Yaml(v)) : v \in SdkVersions}
    \cup {File(YamlWithoutVersion), Err(NotFound)}
SdkDirs == {"a", "b", "c", "d"}
MaxFiles == 3
\* the listings of up to MaxFiles files in pairwise different directories
SdkListings ==
  UNION {{f \in [1..n -> [dir : SdkDirs, answer : SdkAnswers]] :
            \A i, j \in 1..n : i # j => f[i].dir # f[j].dir} :
         n \in 1..MaxFiles}

IsValidTransitionCall ==
  /\ op = "none"
  /\ \E from \in TierOrNull, to \in TierOrNull :
       /\ args' = [from |-> from, to |-> to]
       /\ ret' = isValidTransition(from, to)
  /\ op' = "isValidTransition"
  /\ prev' = <<>>
  /\ runs' = 1
  /\ UNCHANGED <<clientVars, collectVars, calls>>

BuildConfidenceMapCall ==
  /\ op = "none"
  /\ \E project \in BuildRecords, existing \in ExistingMaps :
       /\ args' = [project |-> project, existingConfidence |-> existing]
       /\ ret' = buildConfidenceMap(project, existing)
  /\ op' = "buildConfidenceMap"
  /\ prev' = <<>>
  /\ runs' = 1
  /\ UNCHANGED <<clientVars, collectVars, calls>>

\* buildConfidenceMap is called once more on the same arguments
BuildConfidenceMapAgain ==
  /\ op = "buildConfidenceMap"
  /\ runs < MaxRuns
  /\ prev' = ret
  /\ ret' = buildConfidenceMap(args.project, args.existingConfidence)
  /\ runs' = runs + 1
  /\ UNCHANGED <<op, args, clientVars, collectVars, calls>>

\* buildConfidenceMap, then validateConfidenceMap on the record with the map
\* attached, then buildConfidenceMap with the map as the existing one
BuildThenValidateCall ==
  /\ op = "none"
  /\ \E project \in BuildRecords, existing \in ExistingMaps :
       LET map == buildConfidenceMap(project, existing) IN
       /\ args' = [project |-> project, existingConfidence |-> existing]
       /\ ret' = [map |-> map,
                  errors |-> validateConfidenceMap(WithConfidence(project, map)),
                  again |-> buildConfidenceMap(project, Some(map))]
  /\ op' = "buildThenValidate"
  /\ prev' = <<>>
  /\ runs' = 1
  /\ UNCHANGED <<clientVars, collectVars, calls>>

ValidateConfidenceMapCall ==
  /\ op = "none"
  /\ \E r \in ValidateRecords, m \in ConfidenceMaps :
       /\ args' = [project |-> WithConfidence(r, m)]
       /\ ret' = validateConfidenceMap(WithConfidence(r, m))
  /\ op' = "validateConfidenceMap"
  /\ prev' = <<>>
  /\ runs' = 1
  /\ UNCHANGED <<clientVars, collectVars, calls>>

ValidateDatasetCall ==
  /\ op = "none"
  /\ \E data \in Datasets :
       /\ args' = [data |-> data]
       /\ ret' = validateDataset(data)
  /\ op' = "validateDataset"
  /\ prev' = <<>>
  /\ runs' = 1
  /\ UNCHANGED <<clientVars, collectVars, calls>>

CollectSdkVersionCall ==
  /\ op = "none"
  /\ \E root \in {Err(NotFound), File(Yaml("2.9.0"))}, files \in SdkListings :
       /\ args' = [root |-> root, files |-> files]
       /\ ret' = collectSdkVersion(root, TreeOf(files), AnswersOf(files))
  /\ op' = "collectSdkVersion"
  /\ prev' = <<>>
  /\ runs' = 1
  /\ UNCHANGED <<clientVars, collectVars, calls>>

CollectCiCall ==
  /\ op = "none"
  /\ \E entries \in CiTrees, r \in CiAnswers :
       /\ args' = [tree |-> entries, runs |-> r, now |-> CiClock]
       /\ ret' = collectCi(entries, r, CiClock)
  /\ op' = "collectCi"
  /\ prev' = <<>>
  /\ runs' = 1
  /\ UNCHANGED <<clientVars, collectVars, calls>>

CollectDocumentationCall ==
  /\ op = "none"
  /\ \E entries \in DocTrees, meta \in DocMetas, r \in DocAnswers :
       /\ args' = [tree |-> entries, repoMeta |-> meta, readme |-> r,
                   owner |-> "acme", repo |-> "app"]
       /\ ret' = collectDocumentation(entries, meta, "acme", "app", r)
  /\ op' = "collectDocumentation"
  /\ prev' = <<>>
  /\ runs' = 1
  /\ UNCHANGED <<clientVars, collectVars, calls>>

\* a field's tier is moved along a chain; each move is one the caller had
\* isValidTransition accept
MaxChain == 4
TransitionChainStart ==
  /\ op = "none"
  /\ \E t \in TierOrNull : args' = [chain |-> <<t>>]
  /\ op' = "chain"
  /\ ret' = <<>>
  /\ prev' = <<>>
  /\ runs' = 0
  /\ UNCHANGED <<clientVars, collectVars, calls>>

TransitionChainStep ==
  /\ op = "chain"
  /\ Len(args.chain) < MaxChain
  /\ \E to \in TierOrNull :
       /\ isValidTransition(args.chain[Len(args.chain)], to)
       /\ args' = [chain |-> Append(args.chain, to)]
       /\ ret' = isValidTransition(args.chain[Len(args.chain)], to)
  /\ prev' = ret
  /\ runs' = runs + 1
  /\ UNCHANGED <<op, clientVars, collectVars, calls>>

DataNext ==
  \/ IsValidTransitionCall
  \/ BuildConfidenceMapCall
  \/ BuildConfidenceMapAgain
  \/ BuildThenValidateCall
  \/ ValidateConfidenceMapCall
  \/ ValidateDatasetCall
  \/ CollectSdkVersionCall
  \/ CollectCiCall
  \/ CollectDocumentationCall
  \/ TransitionChainStart
  \/ TransitionChainStep

\* two get calls on one client, in every interleaving
SpecConcurrent == Init /\ [][ConcurrentNext]_vars

\* the functions of the confidence model and the validator, each applied to
\* arguments of the sets above
SpecData == Init /\ [][DataNext]_vars

(***************************************************************************)
(* Properties of GitHubClient.get                                          *)
(***************************************************************************)
Requests == Cardinality({i \in DOMAIN log : log[i].ev = "request"})
LastIs(e) == Len(log) > 0 /\ log[Len(log)].ev = e

\* the log with the length of the pacing sleeps left out
Shape == [i \in DOMAIN log |->
            IF log[i].ev = "check" THEN Event("check", 0) ELSE log[i]]

FullShape ==
  << Event("check", 0), Event("request", 0),
     Event("backoff", 1000), Event("check", 0), Event("request", 0),
     Event("backoff", 2000), Event("check", 0), Event("request", 0),
     Event("backoff", 4000), Event("check", 0), Event("request", 0) >>

IsPrefix(a, b) == Len(a) <= Len(b) /\ a = SubSeq(b, 1, Len(a))

\* C1: a call sends at most 4 requests; nothing is slept before the first
\* attempt, and retry k (k = 1, 2, 3) opens with a backoff sleep of
\* 1000 * 2^(k-1) ms that comes before that attempt's rate-limit check,
\* which comes before its request.
C1_RetrySchedule ==
  /\ Requests <= 4
  /\ IsPrefix(Shape, FullShape)

\* a call that used its whole budget: three backoffs and four requests
C1_Witness ==
  /\ pc = "done"
  /\ Requests = 4
  /\ Cardinality({i \in DOMAIN log : log[i].ev = "backoff"}) = 3

\* C2: a call whose attempts all end in a retryable failure sends exactly 4
\* requests and rejects with a retryable error describing the last attempt
\* (the status of its 5xx or 403 response, or 0 when no payload arrived); a
\* call that resolves returns the payload and status of its last response,
\* whatever retryable failures came before.
C2_RetryableSurfaced ==
  /\ (outcome.kind = "rejected" /\ outcome.error.retryable) =>
        /\ pc = "done"
        /\ Requests = 4
        /\ attempt >= MAX_RETRIES
        /\ IF response = Null
             THEN outcome.error.status = 0
                  /\ outcome.error.message = "fetch failed"
             ELSE LET r == response[1] IN
                  \/ r.status >= 500 /\ outcome.error.status = r.status
                       /\ outcome.error.message =
                             "Server error: " \o StatusText(r.status)
                  \/ r.status = 403 /\ outcome.error.status = 403
                       /\ outcome.error.message = "Rate limit exceeded"
                  \/ r.status = 200 /\ r.body \notin Payloads
                       /\ outcome.error.status = 0
  /\ outcome.kind = "resolved" =>
        /\ pc = "done"
        /\ response # Null
        /\ response[1].status = 200
        /\ outcome.data = response[1].body
        /\ outcome.status = response[1].status
        /\ outcome.rateLimit = lastRateLimit
        /\ outcome.error = Pending.error
        /\ Requests = attempt + 1
  /\ (pc = "done" /\ outcome.kind = "rejected") =>
        outcome.error.message # "Unknown error after retries"

\* four server errors in a row, surfaced after the fourth request
C2_Witness ==
  /\ pc = "done"
  /\ outcome.kind = "rejected"
  /\ outcome.error.retryable
  /\ outcome.error.status = 503
  /\ Requests = 4

\* the statuses get does not retry, given the snapshot after the response
NonRetryable(r, rl) ==
  \/ r.status = 404
  \/ r.status = 409
  \/ r.status = 403 /\ rl.remaining > 0
  \/ r.status < 500 /\ ~(r.status >= 200 /\ r.status <= 299)
       /\ r.status # 403

\* C3: a 404, a 409, a 403 while quota remains, or any other non-success
\* status below 500 ends the call at once: it is rejected with a
\* non-retryable error carrying the response status, and neither a sleep
\* nor a request follows, whatever the attempt number.
C3_NonRetryableImmediate ==
  (response # Null /\ NonRetryable(response[1], lastRateLimit)) =>
    /\ pc = "done"
    /\ outcome.kind = "rejected"
    /\ ~outcome.error.retryable
    /\ outcome.error.status = response[1].status
    /\ LastIs("request")

\* a 403 with quota left, met on the last retry
C3_Witness ==
  /\ response # Null
  /\ response[1].status = 403
  /\ lastRateLimit.remaining > 0
  /\ attempt = 3
  /\ pc = "done"
  /\ ~outcome.error.retryable

\* the error get made of the response of the attempt just handled
AttemptError == IF outcome.kind = "rejected" THEN outcome.error
                ELSE lastError[1]

\* C4: a 403 is the retryable "Rate limit exceeded" exactly when the
\* remaining counter is <= 0 after the headers of that response were
\* applied, and the non-retryable "Forbidden" otherwise; without a
\* remaining header the counter known before the response decides.
C4_ForbiddenOrRateLimit ==
  [][ (pc = "await" /\ response' # Null /\ response'[1].status = 403) =>
        LET counter == IF response'[1].remaining = NoHeader
                         THEN lastRateLimit.remaining
                         ELSE lastRateLimit'.remaining
        IN IF counter <= 0
             THEN AttemptError' =
                    GitHubError(403, "Rate limit exceeded", TRUE)
             ELSE AttemptError' = GitHubError(403, "Forbidden", FALSE)
    ]_clientVars

\* a 403 without a remaining header, classified as rate limit from the
\* counter an earlier response left at 0
C4_Witness ==
  /\ response # Null
  /\ response[1].status = 403
  /\ response[1].remaining = NoHeader
  /\ lastRateLimit.remaining = 0
  /\ lastError = Some(GitHubError(403, "Rate limit exceeded", TRUE))

\* what checkRateLimit sleeps, stated for a wait cap that is inclusive or not
PaceMs(rl, t, capInclusive) ==
  LET w == rl.reset - t + 1 IN
  IF rl.remaining < 100 /\ w > 0
       /\ (IF capInclusive THEN w <= 3600 ELSE w < 3600)
    THEN w * 1000 ELSE 0

\* C5 as stated: before every attempt the client sleeps until reset + 1 s
\* when the counter is below 100, except when reset + 1 s is past or the
\* wait exceeds 3600 s.
C5_PacingAsStated ==
  [][ pc = "check" =>
        /\ log'[Len(log')] = Event("check", PaceMs(lastRateLimit, now, TRUE))
        /\ now' = now + PaceMs(lastRateLimit, now, TRUE) \div 1000
    ]_clientVars

\* C5 (amended): before every attempt the client sleeps until reset + 1 s
\* when the counter is below 100, except when reset + 1 s is not in the
\* future or the wait is 3600 s or more.
C5_Pacing ==
  [][ pc = "check" =>
        /\ pc' = "fetch"
        /\ log'[Len(log')] = Event("check", PaceMs(lastRateLimit, now, FALSE))
        /\ now' = now + PaceMs(lastRateLimit, now, FALSE) \div 1000
    ]_clientVars

\* the first attempt of a call paced by the longest wait that is honoured
C5_Witness ==
  /\ pc = "fetch"
  /\ attempt = 0
  /\ lastRateLimit.remaining = 99
  /\ log = << Event("check", 3599000) >>
  /\ now = lastRateLimit.reset + 1

\* C6: every response, whatever its status, leaves in the snapshot the
\* remaining count and the reset epoch its headers carry; a missing header
\* leaves its counter as it was, and so does a failure without response.
C6_SnapshotFollowsHeaders ==
  [][ pc = "await" =>
        IF response' = Null
          THEN lastRateLimit' = lastRateLimit
          ELSE LET r == response'[1] IN
               /\ IF r.remaining = NoHeader
                    THEN lastRateLimit'.remaining = lastRateLimit.remaining
                    ELSE \E n \in {0, 99, 100} :
                           /\ r.remaining = FormatDecimal(n)
                           /\ lastRateLimit'.remaining = n
               /\ IF r.reset = NoHeader
                    THEN lastRateLimit'.reset = lastRateLimit.reset
                    ELSE \E d \in ResetOffsets :
                           /\ r.reset = FormatDecimal(now + d)
                           /\ lastRateLimit'.reset = now + d
    ]_clientVars

\* a 404 whose headers replaced both counters of the snapshot
C6_Witness ==
  /\ response # Null
  /\ response[1].status = 404
  /\ response[1].remaining = <<9, 9>>
  /\ response[1].reset # NoHeader
  /\ lastRateLimit.remaining = 99
  /\ lastRateLimit.reset = now + 3600

(***************************************************************************)
(* Properties of collectFromGitHub                                         *)
(***************************************************************************)
Settled(c) == cstatus[c] \in {"fulfilled", "rejected"}
Fulfilled == {c \in Collectors : cstatus[c] = "fulfilled"}
\* the run got past the metadata fetch
MetaFetched == repoMeta # Null
\* collectFromGitHub returned after the merge
Merged == opc = "done" /\ MetaFetched

\* C7: once the metadata fetch has succeeded, no failure of a collector -
\* a rejected promise or an exception thrown by the synchronous tests
\* collector - makes collectFromGitHub fail; the call resolves and what the
\* collectors that succeeded returned is in its fields.
C7_CollectorFailureIsolated ==
  /\ MetaFetched => oresult # "rejected"
  /\ Merged =>
       \A c \in Fulfilled : \A k \in DOMAIN cvalue[c] :
         cvalue[c][k] # Null =>
           k \in DOMAIN fields /\ fields[k] = cvalue[c][k]

\* the fields object holds exactly key k with the value collector c returned
Holds(c, k) == k \in DOMAIN fields /\ fields[k] = cvalue[c][k]
ReturnedKeys == UNION {DOMAIN cvalue[c] : c \in Fulfilled}

\* C8 as stated: the merged fields are exactly the fields the succeeded
\* collectors returned, each with its value, a returned null included (so a
\* documentation_url of null is a key of the output), and nothing else.
C8_MergeAsStated ==
  Merged =>
    /\ DOMAIN fields = ReturnedKeys
    /\ \A c \in Fulfilled : \A k \in DOMAIN cvalue[c] : Holds(c, k)

\* C8 (amended): the merged fields are exactly the fields the succeeded
\* collectors returned, each with its value, a returned null included -
\* except documentation_url, which is a key of the output only when the
\* documentation collector returned a URL; a failed collector adds no key.
C8_Merge ==
  Merged =>
    LET dropped == IF Docs \in Fulfilled
                        /\ cvalue[Docs].documentation_url = Null
                     THEN {"documentation_url"} ELSE {}
    IN /\ DOMAIN fields = ReturnedKeys \ dropped
       /\ \A c \in Fulfilled : \A k \in DOMAIN cvalue[c] \ dropped :
            Holds(c, k)

\* a merge after one collector failed: a returned null was copied, the null
\* URL of the documentation collector was not
C8_Witness ==
  /\ Merged
  /\ cstatus[Sdk] = "rejected"
  /\ "canton_sdk_version" \notin DOMAIN fields
  /\ cstatus[License] = "fulfilled"
  /\ cvalue[License].license_type = Null
  /\ "license_type" \in DOMAIN fields
  /\ fields["license_type"] = Null
  /\ cstatus[Docs] = "fulfilled"
  /\ cvalue[Docs].documentation_url = Null
  /\ "documentation_url" \notin DOMAIN fields
  /\ fields["has_documentation"] = Some(TRUE)

\* C9: all seven collectors are launched and collectFromGitHub goes on only
\* when all seven have settled; until then the fields object is empty, so
\* nobody ever sees a partly filled field set.
C9_FanInBarrier ==
  /\ (MetaFetched /\ oresult # "pending") =>
       launched = 7 /\ \A c \in Collectors : Settled(c)
  /\ fields # <<>> => \A c \in Collectors : Settled(c)
  /\ oresult = "pending" => fields = <<>>

\* the writes of collectors, as <<object, owner>> pairs with their writers
CollectorWrites ==
  {a \in access : a[3] \in Collectors /\ a[4] = "write"}
WritersOf(obj, owner) ==
  {a[3] : a \in {b \in CollectorWrites : b[1] = obj /\ b[2] = owner}}

MetaOk == prereq.meta # Null /\ prereq.meta[1].ok
MetaFailed == prereq.meta # Null /\ ~prereq.meta[1].ok
TreeOk == prereq.tree # Null /\ prereq.tree[1].ok
TreeFailed == prereq.tree # Null /\ ~prereq.tree[1].ok
\* a call other than the metadata call was issued
OthersRequested == \E e \in Endpoints \ {"meta"} : requests[e] > 0
\* the notes the metadata step leaves
MetaNotes ==
  IF repoMeta # Null /\ repoMeta[1].archived
    THEN <<"Repository is archived">> ELSE <<>>

\* C11: the metadata is fetched once and before any other call or any
\* collector; when that fetch fails with 404 the run resolves at once with
\* empty fields and the note "Repository not found", when it fails otherwise
\* the run rejects with that error; in both cases no tree call is made and
\* no collector is invoked.
C11_MetadataFirst ==
  /\ requests["meta"] <= 1
  /\ (OthersRequested \/ launched > 0) => requests["meta"] = 1 /\ MetaOk
  /\ MetaFailed =>
       /\ ~OthersRequested
       /\ launched = 0
       /\ \A c \in Collectors : cpc[c] = "unlaunched"
       /\ fields = <<>>
       /\ IF prereq.meta[1].error.status = 404
            THEN /\ opc = "done"
                 /\ oresult = "resolved"
                 /\ rejection = Null
                 /\ notes = <<"Repository not found">>
            ELSE /\ opc = "failed"
                 /\ oresult = "rejected"
                 /\ rejection = Some(prereq.meta[1].error)

\* the metadata call ran out of retries on a server error: the run rejected
\* with that error before anything else was asked for
C11_Witness ==
  /\ MetaFailed
  /\ prereq.meta[1].error = ServerError
  /\ rejection = Some(ServerError)
  /\ requests["meta"] = 1
  /\ requests["tree"] = 0

\* C12: the tree is fetched once, after the metadata fetch succeeded; no
\* outcome of that fetch makes the run fail; a 409 or any other failure
\* leaves an empty, non-truncated tree and exactly one more note; a
\* truncated answer leaves the partial tree and one note; and in every case
\* all seven collectors are invoked afterwards.
C12_TreeTolerated ==
  /\ requests["tree"] <= 1
  /\ requests["tree"] = 1 => MetaOk
  /\ prereq.tree # Null =>
       /\ oresult # "rejected"
       /\ opc # "launch" => launched = 7
       /\ TreeFailed => tree = <<>> /\ ~treeTruncated
       /\ TreeOk => /\ tree = prereq.tree[1].data.tree
                    /\ treeTruncated = prereq.tree[1].data.truncated
       /\ (opc = "launch" /\ launched = 0) =>
            notes = MetaNotes \o
              (IF TreeFailed
                 THEN IF prereq.tree[1].error.status = 409
                        THEN <<"Empty repository">>
                        ELSE <<"Could not fetch file tree: "
                                 \o prereq.tree[1].error.message>>
               ELSE IF treeTruncated
                 THEN <<"Repository too large for complete scan">>
               ELSE <<>>)

\* C13: a reference that cannot be parsed makes collectFromGitHub return at
\* once with an empty field set and at least one note; no client call is
\* issued and the client is not touched.
C13_UnparseableReference ==
  parseRepoUrl(repoUrl) = Null =>
    /\ \A e \in Endpoints : requests[e] = 0
    /\ access = {}
    /\ launched = 0
    /\ opc \in {"start", "done"}
    /\ opc = "done" =>
         /\ oresult = "resolved"
         /\ fields = <<>>
         /\ Len(notes) >= 1

\* the run on a reference without a repository name has returned
C13_Witness ==
  /\ repoUrl = "https://github.com/acme"
  /\ opc = "done"
  /\ oresult = "resolved"
  /\ notes = <<"Could not parse repo URL: https://github.com/acme">>

\* the fields a collector returns
FieldsOf(c) ==
  CASE c = Activity -> {"last_verified_activity"}
    [] c = Sdk -> {"canton_sdk_version"}
    [] c = License -> {"license_type"}
    [] c = Tests -> {"has_tests", "test_count"}
    [] c = Ci -> {"has_ci", "ci_status"}
    [] c = Docs -> {"has_documentation", "documentation_url"}
    [] OTHER -> {"tech_stack"}

\* the errors client.get throws in the runs of the model
ClientErrors == {NotFound, Conflict, ServerError}

\* the notes the catch blocks of a collector push
FailureNotes(c) ==
  CASE c = Activity ->
         {"Empty repository"}
         \cup {"Could not fetch commits: " \o e.message : e \in ClientErrors}
    [] c = License ->
         {"No license detected"}
         \cup {"Could not fetch license: " \o e.message : e \in ClientErrors}
    [] c = Ci -> {"Could not fetch CI runs: " \o e.message : e \in ClientErrors}
    [] c = TechStack ->
         {"Could not fetch languages: " \o e.message : e \in ClientErrors}
    [] OTHER -> {}

\* C14: in a run that passed the metadata fetch, every collector into which
\* a client call threw a client error has its fields in the result, all
\* null, and a diagnostic note about the failure is in the notes.
C14_ClientErrorsSurface ==
  Merged =>
    \A c \in failed :
      /\ \A k \in FieldsOf(c) : k \in DOMAIN fields /\ fields[k] = Null
      /\ \E i \in DOMAIN notes : notes[i] \in FailureNotes(c)

(***************************************************************************)
(* Properties of the confidence model                                      *)
(***************************************************************************)
\* C15: for two tiers, isValidTransition(from, to) is true exactly when
\* from = to, or to is "verified", or the move is verified -> self_reported
\* or auto_detected -> self_reported; a move into "auto_detected" from
\* another tier is rejected; from null every target is accepted.
C15_TransitionTable ==
  op = "isValidTransition" =>
    /\ (args.from # Null /\ args.to # Null) =>
         (ret <=>
            \/ args.from = args.to
            \/ args.to = Some("verified")
            \/ args.from = Some("verified") /\ args.to = Some("self_reported")
            \/ /\ args.from = Some("auto_detected")
               /\ args.to = Some("self_reported"))
    /\ ( /\ args.from # Null
         /\ args.to = Some("auto_detected")
         /\ args.from # args.to ) => ~ret
    /\ args.from = Null => ret

\* the move from "verified" back to "auto_detected" was asked for and refused
C15_Witness ==
  /\ op = "isValidTransition"
  /\ args.from = Some("verified")
  /\ args.to = Some("auto_detected")
  /\ ret = FALSE

\* the default tier of a field
DefaultTier(f) ==
  IF f \in AUTO_DETECTED_FIELDS THEN Some("auto_detected")
  ELSE IF f \in MANUALLY_VERIFIED_FIELDS THEN Some("verified")
  ELSE Some("self_reported")

\* C16: the keys of the map buildConfidenceMap returns are the fields of the
\* record that are not registry-managed; a field that is null or undefined
\* has tier null, otherwise the tier the existing map supplies for it, if it
\* supplies one, otherwise the default tier of the field.
C16_MapConstruction ==
  op = "buildConfidenceMap" =>
    LET project == args.project
        existing == args.existingConfidence
    IN /\ DOMAIN ret = DOMAIN project \ OBSERVATORY_MANAGED_FIELDS
       /\ \A f \in DOMAIN project \ OBSERVATORY_MANAGED_FIELDS :
            ret[f] =
              IF project[f] \in {Null, Undefined} THEN Null
              ELSE IF /\ existing # Null
                      /\ f \in DOMAIN existing[1]
                      /\ existing[1][f] # Null
                THEN existing[1][f]
              ELSE DefaultTier(f)

\* a map built for a record with a managed field, a null field that has a
\* supplied tier, a field whose supplied tier is kept, and a defaulted field
C16_Witness ==
  /\ op = "buildConfidenceMap"
  /\ args.project = [project_id |-> Some("x"), display_name |-> Some("x"),
                     has_tests |-> Null, status |-> Some("x")]
  /\ args.existingConfidence =
       Some([display_name |-> Some("verified"),
             has_tests |-> Some("self_reported")])
  /\ ret = [display_name |-> Some("verified"), has_tests |-> Null,
            status |-> Some("verified")]

OwnFields(project) == DOMAIN project \ OBSERVATORY_MANAGED_FIELDS
\* the tier the confidence map of a project gives to a field (none: null)
TierOf(project, f) ==
  IF f \in DOMAIN project["data_confidence"]
    THEN project["data_confidence"][f] ELSE Null
\* the keys of the confidence map that name no field a tier may be given to
BadKeys(project) ==
  {k \in DOMAIN project["data_confidence"] :
     k \in OBSERVATORY_MANAGED_FIELDS \/ k \notin DOMAIN project}
\* the fields whose value and tier are not null together
Unbalanced(project) ==
  {f \in OwnFields(project) :
     (project[f] = Null) # (TierOf(project, f) = Null)}

\* C18: validateConfidenceMap returns no error exactly when every key of the
\* confidence map names a field of the record that is not registry-managed
\* and every such field of the record is null exactly when its tier is null;
\* otherwise it returns one error per offending field, naming it.
C18_MapValidation ==
  op = "validateConfidenceMap" =>
    LET offending == BadKeys(args.project) \cup Unbalanced(args.project)
    IN /\ (ret = <<>>) <=> (offending = {})
       /\ {ret[i].field : i \in DOMAIN ret} = offending
       /\ Len(ret) = Cardinality(offending)

(***************************************************************************)
(* Properties of validateDataset                                           *)
(***************************************************************************)
\* the records of the array a validateDataset call was given
Records == {args.data.items[i] : i \in DOMAIN args.data.items}
ReportedValid == op = "validateDataset" /\ ~ret.thrown /\ ret.valid
ReportedInvalid == op = "validateDataset" /\ ~ret.thrown /\ ~ret.valid
\* the confidence-map entry of field f of record r is null
EntryIsNull(r, f) ==
  f \in DOMAIN r["data_confidence"] /\ r["data_confidence"][f] = Null

\* C19: in every dataset validateDataset reports valid, each field of each
\* record that is not registry-managed is null exactly when its entry in
\* the record's confidence map is null; a null value with a tier and a value
\* with a null tier both make the dataset invalid.
C19_Biconditional ==
  ReportedValid =>
    \A r \in Records : \A f \in OwnFields(r) :
      (r[f] = Null) <=> EntryIsNull(r, f)

\* how often the id occurs as project_id in the array
Occurrences(id) ==
  Cardinality({i \in DOMAIN args.data.items :
                 args.data.items[i]["project_id"] = id})

\* C20: in every dataset validateDataset reports valid no two records share
\* a project_id; a dataset in which a project_id occurs more than once is
\* reported invalid, with a duplicate error for that id.
C20_UniqueIds ==
  (op = "validateDataset" /\ args.data.isArray) =>
    /\ ReportedValid => \A id \in Ids : Occurrences(id) <= 1
    /\ \A id \in Ids : Occurrences(id) > 1 =>
         /\ ReportedInvalid
         /\ \E n \in DOMAIN ret.errors :
              /\ ret.errors[n].check = "unique"
              /\ ret.errors[n].project = id

\* the places <<i, n>> of the partnership entries of the array that equal
\* the project_id of no record of the array
UnresolvedEntries ==
  LET items == args.data.items
  IN {e \in (DOMAIN items) \X (1..MaxRecords) :
        /\ "partnerships" \in DOMAIN items[e[1]]
        /\ e[2] \in DOMAIN items[e[1]]["partnerships"]
        /\ \A j \in DOMAIN items :
             items[j]["project_id"] # items[e[1]]["partnerships"][e[2]]}
\* the errors of the returned list that checkPartnershipRefs pushed
PartnershipErrors ==
  {n \in DOMAIN ret.errors : ret.errors[n].check = "partnership"}

\* C21: in every dataset validateDataset reports valid each partnership
\* entry is the project_id of a record of the dataset; each entry that
\* resolves to no record produces one error that names the referencing
\* project and the unknown reference.
C21_PartnershipsResolve ==
  (op = "validateDataset" /\ args.data.isArray) =>
    /\ ReportedValid => UnresolvedEntries = {}
    /\ UnresolvedEntries # {} =>
         /\ ~ret.thrown
         /\ Cardinality(PartnershipErrors) = Cardinality(UnresolvedEntries)
         /\ \A e \in UnresolvedEntries : \E n \in PartnershipErrors :
              /\ ret.errors[n].project = args.data.items[e[1]]["project_id"]
              /\ ret.errors[n].ref =
                   args.data.items[e[1]]["partnerships"][e[2]]

\* C22: for an array, validateDataset returns the errors of the schema, of
\* checkUniqueIds, checkIdFormat, checkPartnershipRefs, checkConfidenceKeys
\* and checkDateFields, concatenated in that order; no check is skipped
\* because an earlier one found errors.
C22_AllChecksInOrder ==
  (op = "validateDataset" /\ args.data.isArray) =>
    LET projects == args.data.items
    IN /\ ~ret.thrown
       /\ ~checkPartnershipRefs(projects).thrown
       /\ ~checkConfidenceKeys(projects).thrown
       /\ ret.errors =
            schemaValidate(args.data).errors
              \o checkUniqueIds(projects).errors
              \o checkIdFormat(projects).errors
              \o checkPartnershipRefs(projects).errors
              \o checkConfidenceKeys(projects).errors
              \o checkDateFields(projects).errors

\* C23: for every input validateDataset returns valid = true exactly when
\* the error list it returns is empty; for an input that is no array it
\* returns the schema errors only and valid = false; for the empty array it
\* returns valid = true and no error.
C23_ValidIffNoErrors ==
  op = "validateDataset" =>
    /\ ~ret.thrown
    /\ ret.valid <=> ret.errors = <<>>
    /\ ~args.data.isArray =>
         /\ ~ret.valid
         /\ ret.errors = schemaValidate(args.data).errors
         /\ \A n \in DOMAIN ret.errors : ret.errors[n].check = "schema"
    /\ args.data = Array(<<>>) => ret.valid /\ ret.errors = <<>>

\* C24: validateDataset throws for no array: for records that lack
\* partnerships or data_confidence too it returns a result, and the error
\* list of the result names the missing field of the record.
C24_NeverThrows ==
  (op = "validateDataset" /\ args.data.isArray) =>
    /\ ~ret.thrown
    /\ \A i \in DOMAIN args.data.items :
         \A f \in {"partnerships", "data_confidence"} :
           f \notin DOMAIN args.data.items[i] =>
             \E n \in DOMAIN ret.errors :
               /\ ret.errors[n].check = "schema"
               /\ ret.errors[n].path = <<i - 1>>
               /\ ret.errors[n].field = f

(***************************************************************************)
(* Properties of single collectors                                         *)
(***************************************************************************)
\* the versions parsed from the files of a listing
ParsedVersions(files) ==
  {v \in SdkVersions : \E i \in DOMAIN files :
     LET c == getFileContent(files[i].answer)
     IN c.content # Null /\ parseSdkVersion(c.content[1]) = Some(v)}
\* the listings that hold the files of `files` in another order
Reorderings(files) ==
  {[i \in DOMAIN files |-> files[q[i]]] :
     q \in {f \in [DOMAIN files -> DOMAIN files] :
              \A i, j \in DOMAIN files : i # j => f[i] # f[j]}}
\* the root daml.yaml is absent and some file below the root gives a version
ScannedWithVersions ==
  /\ op = "collectSdkVersion"
  /\ args.root = Err(NotFound)
  /\ ParsedVersions(args.files) # {}
Reported(root, files) ==
  collectSdkVersion(root, TreeOf(files), AnswersOf(files))
    .value["canton_sdk_version"]

\* C25 as stated: the version reported is greatest among the parsed ones
\* under compareSemver, and the same string is reported for every order in
\* which the files are listed.
C25_HighestVersionAsStated ==
  ScannedWithVersions =>
    /\ ret.kind = "return"
    /\ \E v \in ParsedVersions(args.files) :
         /\ ret.value["canton_sdk_version"] = Some(v)
         /\ \A w \in ParsedVersions(args.files) : compareSemver(v, w) >= 0
    /\ \A other \in Reorderings(args.files) :
         Reported(args.root, other) = ret.value["canton_sdk_version"]

\* C25: the version reported is greatest among the parsed ones under
\* compareSemver; for every order in which the files are listed the reported
\* version compares equal to it, and it is the same string when no other
\* parsed version compares equal to it.
C25_HighestVersion ==
  ScannedWithVersions =>
    /\ ret.kind = "return"
    /\ \E v \in ParsedVersions(args.files) :
         /\ ret.value["canton_sdk_version"] = Some(v)
         /\ \A w \in ParsedVersions(args.files) : compareSemver(v, w) >= 0
         /\ \A other \in Reorderings(args.files) :
              LET u == Reported(args.root, other)
              IN /\ u # Null
                 /\ u[1] \in ParsedVersions(args.files)
                 /\ compareSemver(u[1], v) = 0
                 /\ (\A w \in ParsedVersions(args.files) :
                       compareSemver(w, v) = 0 => w = v) => u = Some(v)

\* three files listed with the greatest version in the middle, "2.10" above
\* "2.9.0"
C25_Witness ==
  /\ ScannedWithVersions
  /\ Len(args.files) = 3
  /\ AnswersOf(args.files) =
       <<File(Yaml("2.9.0")), File(Yaml("2.10")), File(Yaml("2.8.1"))>>
  /\ ret.value["canton_sdk_version"] = Some("2.10")

\* the tree holds a workflow file and the runs call gave a completed run
RunKnown ==
  /\ op = "collectCi"
  /\ hasGitHubActions(args.tree)
  /\ args.runs.ok
  /\ Len(args.runs.data.workflow_runs) > 0
\* seconds between the run's updated_at and the clock
RunAge == args.now - args.runs.data.workflow_runs[1].updated_at
\* the status that goes with the conclusion of the run
StatusOfConclusion ==
  LET c == args.runs.data.workflow_runs[1].conclusion
  IN IF c = "success" THEN "passing"
     ELSE IF c = "failure" THEN "failing" ELSE "unknown"
CiStatus == ret.value["ci_status"]

RuleDocsDir ==
  \E i \in DOMAIN args.tree :
    /\ args.tree[i].type = "blob"
    /\ Len(args.tree[i].path) >= 2
    /\ args.tree[i].path[1] = "docs"
    /\ basename(args.tree[i].path) # ".gitkeep"
RuleReadme ==
  /\ \E i \in DOMAIN args.tree : args.tree[i] = Blob(<<"README.md">>)
  /\ args.readme.ok
  /\ args.readme.data.size > README_MIN_BYTES
RuleApiSpec ==
  \E i \in DOMAIN args.tree : args.tree[i] = Blob(<<"openapi.yaml">>)
RulePages == args.repoMeta # Null /\ args.repoMeta[1].has_pages

\* C27: has_documentation is true exactly when one of the four rules
\* matches; documentation_url is the pages address of owner and repo exactly
\* when the pages rule is the first that matches, and null otherwise; with
\* no match the result is false with a null URL.
C27_DocumentationRules ==
  op = "collectDocumentation" =>
    /\ ret.kind = "return"
    /\ ret.value["has_documentation"] =
         Some(RuleDocsDir \/ RuleReadme \/ RuleApiSpec \/ RulePages)
    /\ ret.value["documentation_url"] =
         IF RulePages /\ ~RuleDocsDir /\ ~RuleReadme /\ ~RuleApiSpec
           THEN Some("https://acme.github.io/app")
         ELSE Null

(***************************************************************************)
(* Properties of chains of tier transitions                                *)
(***************************************************************************)
Claimed == {Some("verified"), Some("self_reported")}

\* C28 as stated: along every chain of accepted transitions, once the chain
\* holds "verified" or "self_reported" it never later holds "auto_detected",
\* chains that pass through null included.
C28_NoReturnAsStated ==
  op = "chain" =>
    \A i, j \in DOMAIN args.chain :
      (i < j /\ args.chain[i] \in Claimed) =>
        args.chain[j] # Some("auto_detected")

\* C28: along every chain of accepted transitions, after "verified" or
\* "self_reported" the chain holds "auto_detected" again only after it held
\* null in between.
C28_NoReturn ==
  op = "chain" =>
    \A i, j \in DOMAIN args.chain :
      ( /\ i < j
        /\ args.chain[i] \in Claimed
        /\ \A k \in i..j : args.chain[k] # Null ) =>
        args.chain[j] # Some("auto_detected")

\* a chain without null that went from auto_detected up to verified and
\* down to self_reported
C28_Witness ==
  /\ op = "chain"
  /\ args.chain = <<Some("auto_detected"), Some("self_reported"),
                    Some("verified"), Some("self_reported")>>

(***************************************************************************)
(* Properties of get calls that run side by side                           *)
(***************************************************************************)
\* the snapshot rl demands a pacing sleep at time t
Unpaced(rl, t) ==
  /\ rl.remaining < 100
  /\ rl.reset - t + 1 > 0
  /\ rl.reset - t + 1 < 3600

\* C29: in every interleaving of two get calls on one client no request goes
\* out at a moment when the snapshot shows fewer than 100 remaining requests
\* and a wait (reset - now + 1) strictly between 0 and 3600 seconds.
C29_NoUnpacedRequest ==
  \A c \in Callers :
    calls[c].sent # Null =>
      ~Unpaced(calls[c].sent[1].rl, calls[c].sent[1].at)

(***************************************************************************)
(* Properties of buildConfidenceMap followed by validateConfidenceMap      *)
(***************************************************************************)
\* every field of the record holds a value or null
AllPresent(project) == \A k \in DOMAIN project : project[k] # Undefined

\* C30: for a record whose fields all hold a value or null, with or without
\* an existing map, the record with the map of buildConfidenceMap attached
\* has no validateConfidenceMap error, and buildConfidenceMap given that map
\* as the existing map returns the same map.
C30_BuildThenValidate ==
  (op = "buildThenValidate" /\ AllPresent(args.project)) =>
    /\ ret.errors = <<>>
    /\ ret.again = ret.map

\* a record with a null field the existing map has a tier for, a kept tier
\* and a defaulted tier: the built map validates and is rebuilt unchanged
C30_Witness ==
  /\ op = "buildThenValidate"
  /\ args.project = [project_id |-> Some("x"), display_name |-> Some("x"),
                     has_tests |-> Null, status |-> Some("x")]
  /\ args.existingConfidence =
       Some([display_name |-> Some("verified"),
             has_tests |-> Some("self_reported")])
  /\ ret.map = [display_name |-> Some("verified"), has_tests |-> Null,
                status |-> Some("verified")]
  /\ ret.errors = <<>>
  /\ ret.again = ret.map
====
